---- MODULE Spec2Model ----
\* Access resolution and document lifecycle engine of the document store
\* (backend/my_project/my_app): role resolution over the ACL table, the
\* version ledger, share links.  Every ORM statement commits on its own
\* (the views open no transaction), so a handler that issues several writes
\* is a sequence of steps in the interleaved specifications.
EXTENDS Integers, FiniteSets, Sequences, TLC

\* ---------------------------------------------------------------- bounds
MaxTime == 2
MaxVersion == 3
MaxLinks == 2
MaxAudit == 2

\* ---------------------------------------------------------------- universe
Null == -1                      \* a NULL timestamp / integer column
NoRole == "None"                \* Python None returned by the resolver
Anon == 0                       \* AnonymousUser (is_authenticated = False)
AuthUsers == {1, 2, 3}
AllUsers == AuthUsers \cup {Anon}
AdminUsers == {3}               \* is_staff or is_superuser

Groups == {1, 2}
DocIds == {1}
Procs == {1, 2}

GrantUsers == {2}               \* users that requests name as grant subject
GrantGroups == {1}              \* groups that requests name as grant subject
Creators == {1, 2, Anon}        \* callers of the create endpoint
UnknownSubject == 9             \* an id no User or Group row has

\* models.py Role / Action
OWNER == "OWNER"
EDITOR == "EDITOR"
VIEWER == "VIEWER"
BOGUS == "ADMIN"                \* a role string outside Role.choices
Roles == {OWNER, EDITOR, VIEWER}
RoleInputs == Roles \cup {BOGUS}

VIEW == "VIEW"
EDIT == "EDIT"
SHARE == "SHARE"
EXPORT == "EXPORT"
Actions == {VIEW, EDIT, SHARE, EXPORT}

Methods == {"GET", "PUT", "DELETE", "POST"}
SAFE_METHODS == {"GET", "HEAD", "OPTIONS"}

Times == 0..MaxTime
ExpiryInputs == {Null} \cup (1..MaxTime)

\* html payloads: a sequence of tokens, tags start with "<"
NoneHtml == <<"None">>          \* a NULL html / text column
Htmls == {<<"<p>", "a">>, <<"b">>}

VARIABLES documents, versions, acl, shareLinks, now, reqs, last, audit, auditOk, qrLinks

vars == <<documents, versions, acl, shareLinks, now, reqs, last, audit, auditOk, qrLinks>>

\* ---------------------------------------------------------------- directory
is_authenticated(u) == u \in AuthUsers

is_admin(u) == u \in AdminUsers

\* user.groups.values_list('id')
user_groups(u) ==
    CASE u = 1 -> {1}
      [] u = 2 -> {1, 2}
      [] OTHER -> {}

UserExists(id) == id \in AuthUsers

GroupExists(id) == id \in Groups

\* ---------------------------------------------------------------- helpers
IsTag(tok) == tok \in {"<p>", "</p>", "<b>"}

\* BeautifulSoup(html).get_text(): the text nodes, tags dropped
get_text(html) == SelectSeq(html, LAMBDA tok : ~IsTag(tok))

NoDocument == [state |-> "none", owner |-> Anon, html |-> NoneHtml,
               text |-> NoneHtml, current_version_no |-> 0]

Live(d) == documents[d].state = "live"

\* ---------------------------------------------------------------- role resolver
ROLE_HIERARCHY_bad(r) ==
    CASE r = OWNER -> 1
      [] r = EDITOR -> 2
      [] r = VIEWER -> 3
      [] OTHER -> 0

ROLE_HIERARCHY(r) ==
    CASE r = OWNER -> 3
      [] r = EDITOR -> 2
      [] r = VIEWER -> 1
      [] OTHER -> 0

not_expired_bad(row, t) == row.expires_at = Null \/ row.expires_at >= t

\* Q(expires_at__isnull=True) | Q(expires_at__gt=timezone.now())
not_expired(row, t) == row.expires_at = Null \/ row.expires_at > t

\* ACL.objects.filter(document, subject_type='user', subject_id=str(user.id)) + expiry filter
user_acl_rows(u, d) ==
    {r \in acl : r.document = d /\ r.subject_type = "user"
                 /\ r.subject_id = u /\ not_expired(r, now)}

\* .first() on an unordered queryset orders by primary key
first(rows) == CHOOSE r \in rows : \A q \in rows : r.id <= q.id

\* ACL.objects.filter(document, subject_type='group', subject_id__in=groups) + expiry filter
group_acls(u, d) ==
    {r \in acl : r.document = d /\ r.subject_type = "group"
                 /\ r.subject_id \in user_groups(u) /\ not_expired(r, now)}

\* the list `roles` built by get_user_effective_role
collected_roles(u, d) ==
    (IF documents[d].owner = u THEN {OWNER} ELSE {})
    \cup (IF user_acl_rows(u, d) # {} THEN {first(user_acl_rows(u, d)).role} ELSE {})
    \cup {r.role : r \in group_acls(u, d)}

max_role(roles) ==
    CHOOSE r \in roles : \A q \in roles : ROLE_HIERARCHY(r) >= ROLE_HIERARCHY(q)

get_user_effective_role_noadmin(u, d) ==
    IF ~is_authenticated(u) THEN NoRole
    ELSE IF collected_roles(u, d) = {} THEN NoRole
    ELSE max_role(collected_roles(u, d))

get_user_effective_role(u, d) ==
    IF ~is_authenticated(u) THEN NoRole
    ELSE IF is_admin(u) THEN OWNER
    ELSE IF collected_roles(u, d) = {} THEN NoRole
    ELSE max_role(collected_roles(u, d))

\* ---------------------------------------------------------------- action authorizer
role_permissions_bad(role) ==
    CASE role = OWNER -> {VIEW, EDIT, SHARE, EXPORT}
      [] role = EDITOR -> {VIEW, EDIT, SHARE, EXPORT}
      [] role = VIEWER -> {VIEW, EXPORT}
      [] OTHER -> {}

\* role_permissions.get(role, [])
role_permissions(role) ==
    CASE role = OWNER -> {VIEW, EDIT, SHARE, EXPORT}
      [] role = EDITOR -> {VIEW, EDIT, EXPORT}
      [] role = VIEWER -> {VIEW, EXPORT}
      [] OTHER -> {}

user_can_perform_action(u, d, action) ==
    IF get_user_effective_role(u, d) = NoRole THEN FALSE
    ELSE action \in role_permissions(get_user_effective_role(u, d))

has_object_permission_bad(u, method, d) ==
    IF is_admin(u) THEN TRUE
    ELSE IF method \in SAFE_METHODS THEN user_can_perform_action(u, d, VIEW)
    ELSE user_can_perform_action(u, d, EDIT)

\* DocumentAccessPermission.has_object_permission
has_object_permission(u, method, d) ==
    IF is_admin(u) THEN TRUE
    ELSE IF method \in SAFE_METHODS THEN user_can_perform_action(u, d, VIEW)
    ELSE IF method \in {"PUT", "PATCH"} THEN user_can_perform_action(u, d, EDIT)
    ELSE IF method = "DELETE" THEN get_user_effective_role(u, d) = OWNER
    ELSE user_can_perform_action(u, d, EDIT)

\* DocumentDetailView.get_queryset: the documents get_object() can find
detail_queryset(u) ==
    IF is_admin(u) THEN {d \in DocIds : Live(d)}
    ELSE {d \in DocIds : Live(d) /\
            (\/ documents[d].owner = u
             \/ \E r \in acl : r.document = d /\ r.subject_type = "user"
                               /\ r.subject_id = u /\ not_expired(r, now)
             \/ \E r \in acl : r.document = d /\ r.subject_type = "group"
                               /\ r.subject_id \in user_groups(u) /\ not_expired(r, now))}

\* ---------------------------------------------------------------- grant store
Result(op, u, d, arg, status, result) ==
    [op |-> op, user |-> u, doc |-> d, arg |-> arg, status |-> status, result |-> result]

\* ---------------------------------------------------------------- audit recorder
\* auditOk: the AuditLog table accepts an INSERT.  The specifications that never
\* set it run with the audit store failing: log_audit_event then writes nothing.
AuditRow(id, action, actor, d, version_no) ==
    [id |-> id, action |-> action, actor_user |-> actor, document |-> d,
     version_no |-> version_no, ts |-> now, share_link |-> Null, qr_link |-> Null]

log_audit_event_bad(action, actor, d, version_no) ==
    [table |-> IF auditOk
               THEN audit \cup {AuditRow(Cardinality(audit) + 1, action, actor, d, version_no)}
               ELSE audit,
     raised |-> ~auditOk]

\* audit.log_audit_event: AuditLog.objects.create(...) inside try; a failure is
\* logged and None returned, no exception leaves the function
log_audit_event(action, actor, d, version_no) ==
    [table |-> IF auditOk
               THEN audit \cup {AuditRow(Cardinality(audit) + 1, action, actor, d, version_no)}
               ELSE audit,
     raised |-> FALSE]

log_document_view(u, d) == log_audit_event(VIEW, u, d, Null)

log_document_edit(u, d, version_no) == log_audit_event(EDIT, u, d, version_no)

log_document_share(u, d) == log_audit_event(SHARE, u, d, Null)

log_access_revoked(u, d) == log_audit_event(SHARE, u, d, Null)

\* the response of a handler whose log call returned l: an exception leaving
\* the call would end the request with error_status instead
Responded(l, response, error_status) ==
    IF l.raised THEN [response EXCEPT !.status = error_status, !.result = "audit"]
    ELSE response

\* the rows update_or_create's get() matches
acl_matching(d, st, sid) ==
    {r \in acl : r.document = d /\ r.subject_type = st /\ r.subject_id = sid}

\* a fresh primary key; UUIDs are named by the smallest index free for the key
new_acl_id(d, st, sid) ==
    CHOOSE n \in 1..(Cardinality(acl) + 1) : \A r \in acl_matching(d, st, sid) : r.id # n

update_or_create_bad(d, st, sid, role, expires_at) ==
    acl \cup {[id |-> new_acl_id(d, st, sid), document |-> d, subject_type |-> st,
               subject_id |-> sid, role |-> role, expires_at |-> expires_at]}

\* ACL.objects.update_or_create(document, subject_type, subject_id, defaults={role, expires_at})
\* called with at most one matching row
update_or_create(d, st, sid, role, expires_at) ==
    IF acl_matching(d, st, sid) = {}
    THEN acl \cup {[id |-> new_acl_id(d, st, sid), document |-> d, subject_type |-> st,
                    subject_id |-> sid, role |-> role, expires_at |-> expires_at]}
    ELSE {IF r \in acl_matching(d, st, sid)
          THEN [r EXCEPT !.role = role, !.expires_at = expires_at]
          ELSE r : r \in acl}

SubjectExists(st, sid) ==
    \/ st = "user" /\ UserExists(sid)
    \/ st = "group" /\ GroupExists(sid)

SubjectInputs(st) ==
    IF st = "user" THEN GrantUsers \cup {UnknownSubject}
    ELSE IF st = "group" THEN GrantGroups
    ELSE {1}

\* views.document_share_create (POST documents/<pk>/shares/)
document_share_create(u, d, st, sid, role, expires_at) ==
    /\ UNCHANGED <<documents, versions, shareLinks, now, reqs, auditOk, qrLinks>>
    /\ IF ~is_authenticated(u)
       THEN /\ last' = Result("document_share_create", u, d, "", 401, "")
            /\ UNCHANGED <<acl, audit>>
       ELSE IF ~Live(d)
       THEN /\ last' = Result("document_share_create", u, d, "", 404, "")
            /\ UNCHANGED <<acl, audit>>
       ELSE IF ~user_can_perform_action(u, d, SHARE)
       THEN /\ last' = Result("document_share_create", u, d, "", 403, "")
            /\ UNCHANGED <<acl, audit>>
       ELSE IF st \notin {"user", "group"} \/ ~SubjectExists(st, sid)
       THEN /\ last' = Result("document_share_create", u, d, "", 400, "")
            /\ UNCHANGED <<acl, audit>>
       ELSE IF Cardinality(acl_matching(d, st, sid)) > 1
       THEN /\ last' = Result("document_share_create", u, d, "", 400, "")
            /\ UNCHANGED <<acl, audit>>
       ELSE /\ acl' = update_or_create(d, st, sid, role, expires_at)
            /\ audit' = log_document_share(u, d).table
            /\ last' = Responded(log_document_share(u, d),
                                 Result("document_share_create", u, d, "", 201, ""), 400)

\* views.document_acl_list_create, POST branch
document_acl_list_create(u, d, st, sid, role, expires_at) ==
    /\ UNCHANGED <<documents, versions, shareLinks, now, reqs, auditOk, qrLinks>>
    /\ IF ~is_authenticated(u)
       THEN /\ last' = Result("document_acl_list_create", u, d, "", 401, "")
            /\ UNCHANGED <<acl, audit>>
       ELSE IF ~Live(d)
       THEN /\ last' = Result("document_acl_list_create", u, d, "", 404, "")
            /\ UNCHANGED <<acl, audit>>
       ELSE IF ~user_can_perform_action(u, d, SHARE)
       THEN /\ last' = Result("document_acl_list_create", u, d, "", 403, "")
            /\ UNCHANGED <<acl, audit>>
       ELSE IF st \notin {"user", "group"} \/ role \notin {VIEWER, EDITOR, OWNER}
       THEN /\ last' = Result("document_acl_list_create", u, d, "", 400, "")
            /\ UNCHANGED <<acl, audit>>
       ELSE IF ~SubjectExists(st, sid)
       THEN /\ last' = Result("document_acl_list_create", u, d, "", 404, "")
            /\ UNCHANGED <<acl, audit>>
       ELSE IF Cardinality(acl_matching(d, st, sid)) > 1
       THEN /\ last' = Result("document_acl_list_create", u, d, "", 500, "")
            /\ UNCHANGED <<acl, audit>>
       ELSE /\ acl' = update_or_create(d, st, sid, role, expires_at)
            /\ audit' = log_document_share(u, d).table
            /\ last' = Responded(log_document_share(u, d),
                                 Result("document_acl_list_create", u, d, "",
                                        IF acl_matching(d, st, sid) = {} THEN 201 ELSE 200, ""), 500)

NoChange == "unset"             \* the key role absent from request.data
KeepExpiry == -2                \* the key expires_at absent from request.data

\* views.document_acl_detail (PUT / DELETE documents/<id>/acl/<acl_id>/)
document_acl_detail(u, method, d, row, role, expires_at) ==
    /\ UNCHANGED <<documents, versions, shareLinks, now, reqs, auditOk, qrLinks>>
    /\ IF ~is_authenticated(u)
       THEN /\ last' = Result("document_acl_detail", u, d, method, 401, "")
            /\ UNCHANGED <<acl, audit>>
       ELSE IF ~Live(d) \/ row \notin acl \/ row.document # d
       THEN /\ last' = Result("document_acl_detail", u, d, method, 404, "")
            /\ UNCHANGED <<acl, audit>>
       ELSE IF ~user_can_perform_action(u, d, SHARE)
       THEN /\ last' = Result("document_acl_detail", u, d, method, 403, "")
            /\ UNCHANGED <<acl, audit>>
       ELSE IF method = "DELETE"
       THEN /\ audit' = log_access_revoked(u, d).table
            /\ acl' = IF log_access_revoked(u, d).raised THEN acl ELSE acl \ {row}
            /\ last' = Responded(log_access_revoked(u, d),
                                 Result("document_acl_detail", u, d, method, 204, ""), 500)
       ELSE IF role # NoChange /\ role \notin {VIEWER, EDITOR, OWNER}
       THEN /\ last' = Result("document_acl_detail", u, d, method, 400, "")
            /\ UNCHANGED <<acl, audit>>
       ELSE /\ acl' = (acl \ {row}) \cup
                        {[row EXCEPT !.role = IF role # NoChange THEN role ELSE @,
                                     !.expires_at = IF expires_at # KeepExpiry THEN expires_at ELSE @]}
            /\ last' = Result("document_acl_detail", u, d, method, 200, "")
            /\ UNCHANGED audit

\* views.share_update_delete (PUT / DELETE shares/<share_id>/)
share_update_delete(u, method, row, role) ==
    /\ UNCHANGED <<documents, versions, shareLinks, now, reqs, auditOk, qrLinks>>
    /\ IF ~is_authenticated(u)
       THEN /\ last' = Result("share_update_delete", u, row.document, method, 401, "")
            /\ UNCHANGED <<acl, audit>>
       ELSE IF row \notin acl
       THEN /\ last' = Result("share_update_delete", u, row.document, method, 404, "")
            /\ UNCHANGED <<acl, audit>>
       ELSE IF documents[row.document].owner # u /\ ~is_admin(u)
       THEN /\ last' = Result("share_update_delete", u, row.document, method, 403, "")
            /\ UNCHANGED <<acl, audit>>
       ELSE IF method = "DELETE"
       THEN /\ audit' = log_access_revoked(u, row.document).table
            /\ acl' = IF log_access_revoked(u, row.document).raised THEN acl ELSE acl \ {row}
            /\ last' = Responded(log_access_revoked(u, row.document),
                                 Result("share_update_delete", u, row.document, method, 204, ""), 500)
       ELSE IF role \notin {VIEWER, EDITOR, OWNER}
       THEN /\ last' = Result("share_update_delete", u, row.document, method, 400, "")
            /\ UNCHANGED <<acl, audit>>
       ELSE /\ acl' = (acl \ {row}) \cup {[row EXCEPT !.role = role]}
            /\ last' = Result("share_update_delete", u, row.document, method, 200, "")
            /\ UNCHANGED audit

\* timezone.now() advances
Tick ==
    /\ now < MaxTime
    /\ now' = now + 1
    /\ UNCHANGED <<documents, versions, acl, shareLinks, reqs, last, audit, auditOk, qrLinks>>

\* ---------------------------------------------------------------- documents
\* the id the next Document row gets
next_doc_id == CHOOSE d \in DocIds : documents[d].state = "none"

\* DocumentCreateSerializer.create: text from html, empty stored as NULL
create_text(html) == IF html = NoneHtml THEN NoneHtml ELSE get_text(html)

VersionRow(d, n, html, text, author) ==
    [document |-> d, version_no |-> n, html |-> html, text |-> text, author |-> author]

\* QRLink.objects.create(document=document, code=f"doc-{document.id}-{time}", active=True):
\* the code is named by the document it was made for
QRRow(d) ==
    [code |-> d, document |-> d, version_no |-> Null, expires_at |-> Null, active |-> TRUE]

\* DocumentListCreateView.post: the document row, version 1, the audit row, the QR link
DocumentListCreateView_post(u, html) ==
    /\ UNCHANGED <<acl, shareLinks, now, reqs, auditOk>>
    /\ \E d \in DocIds : documents[d].state = "none"
    /\ IF ~is_authenticated(u)
       THEN /\ last' = Result("document_create", u, 0, "", 401, "")
            /\ UNCHANGED <<documents, versions, audit, qrLinks>>
       ELSE /\ documents' = [documents EXCEPT ![next_doc_id] =
                                [state |-> "live", owner |-> u, html |-> html,
                                 text |-> create_text(html), current_version_no |-> 1]]
            /\ versions' = versions \cup
                              {VersionRow(next_doc_id, 1, html, create_text(html), u)}
            /\ audit' = log_document_edit(u, next_doc_id, 1).table
            /\ qrLinks' = qrLinks \cup {QRRow(next_doc_id)}
            /\ last' = Responded(log_document_edit(u, next_doc_id, 1),
                                 Result("document_create", u, next_doc_id, "", 201, ""), 500)

\* Document.delete(): on_delete=CASCADE removes the versions, ACL rows, share
\* links and QR links
cascade_delete(d) ==
    /\ documents' = [documents EXCEPT ![d] = [NoDocument EXCEPT !.state = "deleted"]]
    /\ versions' = {v \in versions : v.document # d}
    /\ acl' = {r \in acl : r.document # d}
    /\ shareLinks' = {l \in shareLinks : l.document # d}
    /\ qrLinks' = {q \in qrLinks : q.document # d}
    /\ audit' = {[a EXCEPT !.document = IF @ = d THEN Null ELSE @] : a \in audit}

\* DocumentDetailView.delete: get_object() (queryset, then object permission), destroy
DocumentDetailView_delete(u, d) ==
    /\ UNCHANGED <<now, reqs, auditOk>>
    /\ IF ~is_authenticated(u)
       THEN /\ last' = Result("document_delete", u, d, "", 401, "")
            /\ UNCHANGED <<documents, versions, acl, shareLinks, audit, qrLinks>>
       ELSE IF d \notin detail_queryset(u)
       THEN /\ last' = Result("document_delete", u, d, "", 404, "")
            /\ UNCHANGED <<documents, versions, acl, shareLinks, audit, qrLinks>>
       ELSE IF ~has_object_permission(u, "DELETE", d)
       THEN /\ last' = Result("document_delete", u, d, get_user_effective_role(u, d), 403, "")
            /\ UNCHANGED <<documents, versions, acl, shareLinks, audit, qrLinks>>
       ELSE /\ cascade_delete(d)
            /\ last' = Result("document_delete", u, d, get_user_effective_role(u, d), 204, "")

\* ---------------------------------------------------------------- queries
\* a caller evaluates get_user_effective_role(user, document)
ResolveRole(u, d) ==
    /\ Live(d)
    /\ last' = Result("get_user_effective_role", u, d, "", 200, get_user_effective_role(u, d))
    /\ UNCHANGED <<documents, versions, acl, shareLinks, now, reqs, audit, auditOk, qrLinks>>

\* a caller evaluates user_can_perform_action(user, document, action)
CanPerform(u, d, action) ==
    /\ Live(d)
    /\ last' = Result("user_can_perform_action", u, d, action, 200,
                      IF user_can_perform_action(u, d, action) THEN "True" ELSE "False")
    /\ UNCHANGED <<documents, versions, acl, shareLinks, now, reqs, audit, auditOk, qrLinks>>

\* ---------------------------------------------------------------- access specification
OneBody == [subject_type |-> "user", subject_id |-> 2, role |-> EDITOR, expires_at |-> Null]

NoVersion == [document |-> 0, version_no |-> 0, html |-> NoneHtml, text |-> NoneHtml,
              author |-> Anon]

Idle == [pc |-> "idle", kind |-> "", user |-> Anon, doc |-> 0, html |-> NoneHtml,
         old_html |-> NoneHtml, instance |-> NoDocument, target |-> 0, new_version_no |-> 0,
         restore_version |-> NoVersion, body |-> OneBody]

Init ==
    /\ documents = [d \in DocIds |-> NoDocument]
    /\ versions = {}
    /\ acl = {}
    /\ shareLinks = {}
    /\ now = 0
    /\ reqs = [p \in Procs |-> Idle]
    /\ last = Result("", Anon, 0, "", 0, "")
    /\ audit = {}
    /\ auditOk = FALSE
    /\ qrLinks = {}

\* request bodies: every well-formed grant, one with an unknown subject, one
\* with subject_type share_link; a caller the handler turns away sends one body
GrantBodies ==
    [subject_type : {"user"}, subject_id : GrantUsers, role : RoleInputs, expires_at : {Null, 1}]
    \cup [subject_type : {"group"}, subject_id : GrantGroups, role : RoleInputs, expires_at : {Null, 1}]
    \cup [subject_type : {"user"}, subject_id : {UnknownSubject}, role : {VIEWER}, expires_at : {Null}]
    \cup [subject_type : {"share_link"}, subject_id : {1}, role : {VIEWER}, expires_at : {Null}]

BodiesOf(u, d, bodies) ==
    IF is_authenticated(u) /\ Live(d) /\ user_can_perform_action(u, d, SHARE)
    THEN bodies ELSE {OneBody}

UpdateBodies ==
    [role : {NoChange, EDITOR, BOGUS}, expires_at : {KeepExpiry, Null, 1}]

GrantRequest ==
    \E u \in AllUsers, d \in DocIds :
        \/ \E b \in BodiesOf(u, d, GrantBodies) :
              document_share_create(u, d, b.subject_type, b.subject_id, b.role, b.expires_at)
        \/ \E b \in BodiesOf(u, d, {g \in GrantBodies : g.role # OWNER}) :
              document_acl_list_create(u, d, b.subject_type, b.subject_id, b.role, b.expires_at)

AclRowRequest ==
    \E u \in AllUsers, row \in acl :
        \/ document_acl_detail(u, "DELETE", row.document, row, NoChange, KeepExpiry)
        \/ \E b \in BodiesOf(u, row.document, UpdateBodies) :
              document_acl_detail(u, "PUT", row.document, row, b.role, b.expires_at)
        \/ share_update_delete(u, "DELETE", row, NoChange)
        \/ \E b \in BodiesOf(u, row.document, {c \in UpdateBodies : c.expires_at = KeepExpiry}) :
              share_update_delete(u, "PUT", row, b.role)

DocumentRequest ==
    \/ \E u \in Creators : DocumentListCreateView_post(u, <<"b">>)
    \/ \E u \in AllUsers, d \in DocIds : DocumentDetailView_delete(u, d)

Next == GrantRequest \/ AclRowRequest \/ DocumentRequest \/ Tick

Spec == Init /\ [][Next]_vars

TypeOK ==
    /\ now \in Times
    /\ \A d \in DocIds : documents[d].state \in {"none", "live", "deleted"}
    /\ \A r \in acl : r.subject_type \in {"user", "group", "share_link"}

\* ---------------------------------------------------------------- resolver specification
\* The resolver and the authorizer are functions of (user, document, ACL table,
\* clock): the tables are those the grant handlers build one row per key, for a
\* direct grant of user 2 and a grant of each group.
AclRow(st, sid, role, e) ==
    [id |-> 1, document |-> 1, subject_type |-> st, subject_id |-> sid,
     role |-> role, expires_at |-> e]

RowChoices(st, sid, roles, expiries) ==
    {{}} \cup {{AclRow(st, sid, role, e)} : role \in roles, e \in expiries}

AclTables ==
    {a \cup b \cup c : a \in RowChoices("user", 2, RoleInputs, ExpiryInputs),
                       b \in RowChoices("group", 1, RoleInputs, ExpiryInputs),
                       c \in RowChoices("group", 2, Roles, {Null})}

\* user 1 has created document 1
InitRole ==
    /\ documents = [d \in DocIds |->
                       [state |-> "live", owner |-> 1, html |-> <<"b">>,
                        text |-> <<"b">>, current_version_no |-> 1]]
    /\ versions = {VersionRow(1, 1, <<"b">>, <<"b">>, 1)}
    /\ acl \in AclTables
    /\ shareLinks = {}
    /\ now = 0
    /\ reqs = [p \in Procs |-> Idle]
    /\ last = Result("", Anon, 0, "", 0, "")
    /\ audit = {}
    /\ auditOk = FALSE
    /\ qrLinks = {QRRow(1)}

NextRole ==
    \/ \E u \in AllUsers, d \in DocIds : ResolveRole(u, d)
    \/ \E u \in {Anon, 2, 3}, d \in DocIds, a \in Actions : CanPerform(u, d, a)
    \/ Tick

SpecRole == InitRole /\ [][NextRole]_vars

\* ---------------------------------------------------------------- claims on the resolver
\* the rows of the table a resolution at time `now` may count, written out from
\* the data model: expiry NULL or strictly in the future
ActiveGrant(r) == r.expires_at = Null \/ r.expires_at > now

DirectGrants(u, d) ==
    {r \in acl : r.document = d /\ r.subject_type = "user" /\ r.subject_id = u /\ ActiveGrant(r)}

GroupGrants(u, d) ==
    {r \in acl : r.document = d /\ r.subject_type = "group"
                 /\ r.subject_id \in user_groups(u) /\ ActiveGrant(r)}

Candidates(u, d) ==
    (IF documents[d].owner = u THEN {OWNER} ELSE {})
    \cup {r.role : r \in DirectGrants(u, d)} \cup {r.role : r \in GroupGrants(u, d)}

\* OWNER > EDITOR > VIEWER > anything else
AtLeast(a, b) ==
    \/ a = OWNER
    \/ a = EDITOR /\ b # OWNER
    \/ a = VIEWER /\ b \notin {OWNER, EDITOR}
    \/ b \notin Roles

NonAdmins == AuthUsers \ AdminUsers

\* C1: for an authenticated non-administrator the resolver returns the highest
\* candidate under OWNER > EDITOR > VIEWER (ownership, the active direct grant,
\* the active grants of the user's groups); a VIEWER group grant with an EDITOR
\* direct grant gives EDITOR, an owner holding a lower grant gets OWNER.
C1_HighestPrivilegeWins ==
    \A u \in NonAdmins, d \in DocIds :
        Live(d) =>
            /\ Candidates(u, d) # {} =>
                  /\ get_user_effective_role(u, d) \in Candidates(u, d)
                  /\ \A c \in Candidates(u, d) : AtLeast(get_user_effective_role(u, d), c)
            /\ ({r.role : r \in GroupGrants(u, d)} = {VIEWER}
                /\ {r.role : r \in DirectGrants(u, d)} = {EDITOR}
                /\ documents[d].owner # u)
                  => get_user_effective_role(u, d) = EDITOR
            /\ documents[d].owner = u => get_user_effective_role(u, d) = OWNER

\* a resolution for user 2, who holds a VIEWER group grant and an EDITOR direct
\* grant and is not the owner, returned EDITOR
C1_Witness ==
    /\ last.op = "get_user_effective_role" /\ last.user = 2 /\ last.result = EDITOR
    /\ documents[1].owner = 1
    /\ {r.role : r \in GroupGrants(2, 1)} = {VIEWER}
    /\ {r.role : r \in DirectGrants(2, 1)} = {EDITOR}

ExpiredRow(r) == r.expires_at # Null /\ r.expires_at <= now

OnlyExpiredGrants(u, d) ==
    /\ documents[d].owner # u
    /\ \E r \in acl : r.document = d /\ ExpiredRow(r)
                      /\ (\/ r.subject_type = "user" /\ r.subject_id = u
                          \/ r.subject_type = "group" /\ r.subject_id \in user_groups(u))
    /\ \A r \in acl :
          (r.document = d /\ (\/ r.subject_type = "user" /\ r.subject_id = u
                              \/ r.subject_type = "group" /\ r.subject_id \in user_groups(u)))
              => ExpiredRow(r)

\* the scenario: the user's only grant is a VIEWER grant to a group, expiring at T
OnlyGroupViewerUntil(u, d, T) ==
    /\ documents[d].owner # u
    /\ DirectGrants(u, d) = {}
    /\ \A r \in acl : ~(r.document = d /\ r.subject_type = "user" /\ r.subject_id = u)
    /\ \E g \in user_groups(u) :
          \A r \in acl :
              (r.document = d /\ r.subject_type = "group" /\ r.subject_id \in user_groups(u))
                  => (r.subject_id = g /\ r.role = VIEWER /\ r.expires_at = T)
    /\ \E r \in acl : r.document = d /\ r.subject_type = "group"
                      /\ r.subject_id \in user_groups(u)

C5_ExpiredNeverCounts ==
    \A u \in NonAdmins, d \in DocIds :
        Live(d) =>
            /\ get_user_effective_role(u, d) # NoRole
                  => get_user_effective_role(u, d) \in Candidates(u, d)
            /\ OnlyExpiredGrants(u, d) => get_user_effective_role(u, d) = NoRole

C5_ExpiryAtReadTime ==
    \A u \in NonAdmins, d \in DocIds :
        (Live(d) /\ now' = now + 1 /\ acl' = acl /\ documents' = documents
         /\ OnlyGroupViewerUntil(u, d, now + 1))
            => /\ user_can_perform_action(u, d, VIEW)
               /\ get_user_effective_role(u, d)' = NoRole
               /\ ~user_can_perform_action(u, d, VIEW)'

\* C5: a grant whose expires_at is not in the future at evaluation time is never
\* a candidate: only an expired grant gives None, and a member whose only grant
\* is a VIEWER group grant expiring at T can VIEW before T and has no access
\* from T on, with nothing but the clock changing.
C5_ExpiryEvaluatedAtResolution ==
    /\ []C5_ExpiredNeverCounts
    /\ [][C5_ExpiryAtReadTime]_vars

\* user 2's only grant is an EDITOR direct grant that has expired, and a
\* resolution for user 2 returned None
C5_Witness ==
    /\ last.op = "get_user_effective_role" /\ last.user = 2 /\ last.result = NoRole
    /\ documents[1].owner = 1
    /\ \E r \in acl : /\ acl = {r}
                      /\ r.subject_type = "user" /\ r.subject_id = 2
                      /\ r.role = EDITOR /\ ExpiredRow(r)

NoAccessGrounds(u, d) ==
    /\ documents[d].owner # u
    /\ DirectGrants(u, d) = {}
    /\ GroupGrants(u, d) = {}

\* C6 as written: for ALL subjects, None iff not owner and no active grant
C6_Original ==
    \A u \in AllUsers, d \in DocIds :
        Live(d) => ((get_user_effective_role(u, d) = NoRole) <=> NoAccessGrounds(u, d))

\* C6 (amended): for every subject that is not an administrator, the resolver
\* returns None iff the subject is not the owner and holds no active user grant
\* and no active group grant on the document.
C6_NoneIffNoGrant ==
    \A u \in AllUsers \ AdminUsers, d \in DocIds :
        Live(d) => ((get_user_effective_role(u, d) = NoRole) <=> NoAccessGrounds(u, d))

\* a resolution for user 2 returned None while user 2's direct grant expires
\* exactly now and nothing else gives access
C6_Witness ==
    /\ last.op = "get_user_effective_role" /\ last.user = 2 /\ last.result = NoRole
    /\ documents[1].owner = 1
    /\ NoAccessGrounds(2, 1)
    /\ \E r \in acl : r.subject_type = "user" /\ r.subject_id = 2 /\ r.expires_at = now

\* the capability table of the design
CapabilityTable(role) ==
    IF role = OWNER THEN {VIEW, EDIT, SHARE, EXPORT}
    ELSE IF role = EDITOR THEN {VIEW, EDIT, EXPORT}
    ELSE IF role = VIEWER THEN {VIEW, EXPORT}
    ELSE {}

\* C7: user_can_perform_action is true exactly when the table allows the action
\* for the effective role; with no access it returns false (a boolean, no error).
C7_CapabilityTable ==
    \A u \in AllUsers, d \in DocIds, a \in Actions :
        Live(d) =>
            /\ user_can_perform_action(u, d, a) \in BOOLEAN
            /\ user_can_perform_action(u, d, a) <=> (a \in CapabilityTable(get_user_effective_role(u, d)))
            /\ get_user_effective_role(u, d) = NoRole => ~user_can_perform_action(u, d, a)

\* user 2, an EDITOR by direct grant, asked for SHARE and was refused
C7_Witness ==
    /\ last.op = "user_can_perform_action" /\ last.user = 2 /\ last.arg = SHARE
    /\ last.result = "False"
    /\ get_user_effective_role(2, 1) = EDITOR
    /\ user_can_perform_action(2, 1, EDIT)

\* C9: an administrator gets OWNER on every document whatever the grants, and is
\* allowed every action and every method.
C9_AdminOverride ==
    \A u \in AdminUsers, d \in DocIds :
        Live(d) =>
            /\ get_user_effective_role(u, d) = OWNER
            /\ \A a \in Actions : user_can_perform_action(u, d, a)
            /\ \A m \in Methods : has_object_permission(u, m, d)

\* the administrator, neither owner nor grantee, asked for SHARE and was allowed
C9_Witness ==
    /\ last.op = "user_can_perform_action" /\ last.user = 3 /\ last.arg = SHARE
    /\ last.result = "True"
    /\ documents[1].owner # 3
    /\ \A r \in acl : ExpiredRow(r)
    /\ acl # {}

\* ---------------------------------------------------------------- claims on deletion
DeleteStepOn(d) == last'.op = "document_delete" /\ last'.doc = d

C8_DeleteStep ==
    \A d \in DocIds :
        Live(d) =>
            /\ ~Live(d)' =>
                  /\ DeleteStepOn(d) /\ last'.status = 204
                  /\ (get_user_effective_role(last'.user, d) = OWNER \/ is_admin(last'.user))
            /\ (DeleteStepOn(d) /\ ~is_admin(last'.user)
                /\ get_user_effective_role(last'.user, d) # OWNER)
                  => /\ last'.status \in {401, 403, 404}
                     /\ UNCHANGED <<documents, versions, acl, shareLinks>>

\* C8: a document is deleted only by a subject whose effective role is exactly
\* OWNER or by an administrator; a subject with role EDITOR, VIEWER or None is
\* denied and the document and its rows are as before.
C8_DeleteOnlyOwner == [][C8_DeleteStep]_vars

\* user 2, an EDITOR, asked to delete document 1 and got 403; the document and
\* its ledger are still there
C8_Witness ==
    /\ last.op = "document_delete" /\ last.user = 2 /\ last.status = 403 /\ last.arg = EDITOR
    /\ Live(1)
    /\ user_can_perform_action(2, 1, EDIT)
    /\ \E v \in versions : v.document = 1

\* ---------------------------------------------------------------- share links
LinkProcs == {1}

LinkRow(id, d, role, e) ==
    [id |-> id, document |-> d, role |-> role, token |-> id,
     expires_at |-> e, revoked_at |-> Null]

\* ShareLinkCreateSerializer.create: a fresh id and a fresh secrets.token_urlsafe
new_link_id == Cardinality(shareLinks) + 1

SetPc(p, pc, kind, u, d, target) ==
    [reqs EXCEPT ![p] = [Idle EXCEPT !.pc = pc, !.kind = kind, !.user = u,
                                     !.doc = d, !.target = target]]

\* document_share_links POST, up to serializer.save(role='VIEWER')
document_share_links_save(p, u, d, role, e) ==
    /\ reqs[p].pc = "idle"
    /\ Cardinality(shareLinks) < MaxLinks
    /\ UNCHANGED <<documents, versions, acl, now, audit, auditOk, qrLinks>>
    /\ IF ~is_authenticated(u)
       THEN /\ last' = Result("document_share_links", u, d, "", 401, "")
            /\ UNCHANGED <<shareLinks, reqs>>
       ELSE IF ~Live(d)
       THEN /\ last' = Result("document_share_links", u, d, "", 404, "")
            /\ UNCHANGED <<shareLinks, reqs>>
       ELSE IF ~user_can_perform_action(u, d, SHARE)
       THEN /\ last' = Result("document_share_links", u, d, "", 403, "")
            /\ UNCHANGED <<shareLinks, reqs>>
       ELSE IF role \notin Roles
       THEN /\ last' = Result("document_share_links", u, d, "", 400, "")
            /\ UNCHANGED <<shareLinks, reqs>>
       ELSE /\ shareLinks' = shareLinks \cup {LinkRow(new_link_id, d, VIEWER, e)}
            /\ reqs' = SetPc(p, "link_acl", "share_links", u, d, new_link_id)
            /\ UNCHANGED last

\* document_share_links POST: ACL.objects.create(subject_type='share_link', role='VIEWER')
document_share_links_acl(p) ==
    /\ reqs[p].pc = "link_acl"
    /\ reqs' = [reqs EXCEPT ![p] = Idle]
    /\ UNCHANGED <<documents, versions, shareLinks, now, audit, auditOk, qrLinks>>
    /\ IF ~Live(reqs[p].doc)
       THEN /\ last' = Result("document_share_links", reqs[p].user, reqs[p].doc, "", 500, "IntegrityError")
            /\ UNCHANGED acl
       ELSE /\ acl' = acl \cup
                {[id |-> new_acl_id(reqs[p].doc, "share_link", reqs[p].target),
                  document |-> reqs[p].doc, subject_type |-> "share_link",
                  subject_id |-> reqs[p].target, role |-> VIEWER,
                  expires_at |-> (CHOOSE l \in shareLinks : l.id = reqs[p].target).expires_at]}
            /\ last' = Result("document_share_links", reqs[p].user, reqs[p].doc, "", 201, "")

\* share_link_revoke: get_object_or_404 and the SHARE check
share_link_revoke_begin(p, u, id) ==
    /\ reqs[p].pc = "idle"
    /\ UNCHANGED <<documents, versions, acl, shareLinks, now, audit, auditOk, qrLinks>>
    /\ IF ~is_authenticated(u)
       THEN /\ last' = Result("share_link_revoke", u, 0, "", 401, "")
            /\ UNCHANGED reqs
       ELSE IF \A l \in shareLinks : l.id # id
       THEN /\ last' = Result("share_link_revoke", u, 0, "", 404, "")
            /\ UNCHANGED reqs
       ELSE IF ~user_can_perform_action(u, (CHOOSE l \in shareLinks : l.id = id).document, SHARE)
       THEN /\ last' = Result("share_link_revoke", u, 0, "", 403, "")
            /\ UNCHANGED reqs
       ELSE /\ reqs' = SetPc(p, "revoke_save", "revoke", u,
                             (CHOOSE l \in shareLinks : l.id = id).document, id)
            /\ UNCHANGED last

\* share_link_revoke: share_link.revoked_at = timezone.now(); share_link.save()
share_link_revoke_save(p) ==
    /\ reqs[p].pc = "revoke_save"
    /\ UNCHANGED <<documents, versions, acl, now, audit, auditOk, qrLinks>>
    /\ IF \A l \in shareLinks : l.id # reqs[p].target
       THEN /\ reqs' = [reqs EXCEPT ![p] = Idle]
            /\ last' = Result("share_link_revoke", reqs[p].user, reqs[p].doc, "", 500, "IntegrityError")
            /\ UNCHANGED shareLinks
       ELSE /\ shareLinks' = {IF l.id = reqs[p].target THEN [l EXCEPT !.revoked_at = now] ELSE l
                               : l \in shareLinks}
            /\ reqs' = [reqs EXCEPT ![p].pc = "revoke_acl"]
            /\ UNCHANGED last

\* share_link_revoke: ACL.objects.filter(document, 'share_link', id).delete()
share_link_revoke_acl(p) ==
    /\ reqs[p].pc = "revoke_acl"
    /\ acl' = acl \ acl_matching(reqs[p].doc, "share_link", reqs[p].target)
    /\ reqs' = [reqs EXCEPT ![p] = Idle]
    /\ last' = Result("share_link_revoke", reqs[p].user, reqs[p].doc, "", 204, "")
    /\ UNCHANGED <<documents, versions, shareLinks, now, audit, auditOk, qrLinks>>

share_link_lookup_any(token) == {l \in shareLinks : l.token = token}

\* ShareLink.objects.get(token=token, revoked_at__isnull=True)
share_link_lookup(token) == {l \in shareLinks : l.token = token /\ l.revoked_at = Null}

\* share_link.expires_at and share_link.expires_at < timezone.now()
link_expired(l) == l.expires_at # Null /\ l.expires_at < now

access_role_from_acl(l) ==
    IF acl_matching(l.document, "share_link", l.id) = {} THEN l.role
    ELSE (CHOOSE r \in acl_matching(l.document, "share_link", l.id) : TRUE).role

\* share_link_access: 'access_role': share_link.role
access_role(l) == l.role

\* the status share_link_access answers with
share_link_access_status(token) ==
    IF share_link_lookup(token) = {} THEN 404
    ELSE IF link_expired(CHOOSE l \in share_link_lookup(token) : TRUE) THEN 404
    ELSE 200

\* views.share_link_access (GET share-links/<token>/)
share_link_access(token) ==
    /\ last' = Result("share_link_access", Anon, token, "", share_link_access_status(token),
                      IF share_link_access_status(token) = 200
                      THEN access_role(CHOOSE l \in share_link_lookup(token) : TRUE)
                      ELSE IF share_link_lookup(token) = {} THEN "Share link not found"
                      ELSE "Share link has expired")
    /\ UNCHANGED <<documents, versions, acl, shareLinks, now, reqs, audit, auditOk, qrLinks>>

\* user 1 has created document 1
InitLink ==
    /\ documents = [d \in DocIds |->
                       [state |-> "live", owner |-> 1, html |-> <<"b">>,
                        text |-> <<"b">>, current_version_no |-> 1]]
    /\ versions = {VersionRow(1, 1, <<"b">>, <<"b">>, 1)}
    /\ acl = {}
    /\ shareLinks = {}
    /\ now = 0
    /\ reqs = [p \in Procs |-> Idle]
    /\ last = Result("", Anon, 0, "", 0, "")
    /\ audit = {}
    /\ auditOk = FALSE
    /\ qrLinks = {QRRow(1)}

LinkCreate ==
    \/ \E p \in LinkProcs, u \in {1, 2}, d \in DocIds, role \in {OWNER, EDITOR, BOGUS}, e \in {Null, 1} :
          document_share_links_save(p, u, d, role, e)
    \/ \E p \in LinkProcs : document_share_links_acl(p)

LinkRevoke ==
    \/ \E p \in LinkProcs, u \in {1, 2}, id \in 1..MaxLinks : share_link_revoke_begin(p, u, id)
    \/ \E p \in LinkProcs : share_link_revoke_save(p)
    \/ \E p \in LinkProcs : share_link_revoke_acl(p)

LinkOther ==
    \/ \E token \in 1..MaxLinks : share_link_access(token)
    \/ \E row \in acl : document_acl_detail(1, "DELETE", row.document, row, NoChange, KeepExpiry)
    \/ \E row \in acl, role \in {OWNER} :
          document_acl_detail(1, "PUT", row.document, row, role, KeepExpiry)
    \/ \E d \in DocIds : DocumentDetailView_delete(1, d)
    \/ Tick

NextLink == LinkCreate \/ LinkRevoke \/ LinkOther

SpecLink == InitLink /\ [][NextLink]_vars

\* ---------------------------------------------------------------- claims on share links
Revoked(l) == l.revoked_at # Null

PastExpiry(l) == l.expires_at # Null /\ l.expires_at < now

C4_DeniedNow ==
    \A l \in shareLinks :
        (Revoked(l) \/ PastExpiry(l)) => share_link_access_status(l.token) # 200

C4_DeniedNext ==
    \A l \in shareLinks :
        (Revoked(l) \/ PastExpiry(l)) => share_link_access_status(l.token)' # 200

\* C4: a revoked link, and a link whose expires_at is in the past, resolves to
\* denial in this state and after every step, whether or not its share_link ACL
\* row still exists: no operation brings it back.
C4_RevokedStaysDenied ==
    /\ []C4_DeniedNow
    /\ [][C4_DeniedNext]_vars

\* link 1 is revoked, its ACL row has not been deleted yet, and an access by its
\* token was answered 404
C4_Witness ==
    /\ last.op = "share_link_access" /\ last.doc = 1 /\ last.status = 404
    /\ \E l \in shareLinks : l.id = 1 /\ Revoked(l) /\ ~PastExpiry(l)
    /\ acl_matching(1, "share_link", 1) # {}

\* ---------------------------------------------------------------- version ledger
\* One step per ORM statement of DocumentDetailView.put and
\* document_restore_version; instance is the Document object the request holds
\* in memory, written back whole by Model.save().
Finish(p, op, status, result) ==
    /\ reqs' = [reqs EXCEPT ![p] = Idle]
    /\ last' = Result(op, reqs[p].user, reqs[p].doc, reqs[p].target, status, result)

\* unique_together = ('document', 'version_no'), and the foreign key to Document
version_insert_fails(d, n) ==
    \/ ~Live(d)
    \/ \E v \in versions : v.document = d /\ v.version_no = n

\* UpdateModelMixin.update: instance = self.get_object()
UpdateGetObject(p, u, d, html) ==
    /\ reqs[p].pc = "idle"
    /\ UNCHANGED <<documents, versions, acl, shareLinks, now, audit, auditOk, qrLinks>>
    /\ IF ~is_authenticated(u)
       THEN /\ last' = Result("document_update", u, d, 0, 401, "")
            /\ UNCHANGED reqs
       ELSE IF d \notin detail_queryset(u)
       THEN /\ last' = Result("document_update", u, d, 0, 404, "")
            /\ UNCHANGED reqs
       ELSE IF ~has_object_permission(u, "PUT", d)
       THEN /\ last' = Result("document_update", u, d, 0, 403, "")
            /\ UNCHANGED reqs
       ELSE /\ documents[d].current_version_no < MaxVersion
            /\ reqs' = [reqs EXCEPT ![p] =
                          [Idle EXCEPT !.pc = "perform_update", !.kind = "update", !.user = u,
                                       !.doc = d, !.html = html, !.instance = documents[d]]]
            /\ UNCHANGED last

\* perform_update: document = self.get_object(); old_html = document.html
PerformUpdateGetObject(p) ==
    /\ reqs[p].pc = "perform_update"
    /\ UNCHANGED <<documents, versions, acl, shareLinks, now, audit, auditOk, qrLinks>>
    /\ IF reqs[p].doc \notin detail_queryset(reqs[p].user)
       THEN Finish(p, "document_update", 404, "")
       ELSE IF ~has_object_permission(reqs[p].user, "PUT", reqs[p].doc)
       THEN Finish(p, "document_update", 403, "")
       ELSE /\ reqs' = [reqs EXCEPT ![p].pc = "serializer_save",
                                    ![p].old_html = documents[reqs[p].doc].html]
            /\ UNCHANGED last

\* DocumentSerializer.update on the instance of the first get_object()
serializer_update(instance, html) ==
    IF html = NoneHtml THEN instance
    ELSE [instance EXCEPT !.html = html, !.text = get_text(html)]

\* perform_update: updated_document = serializer.save(); if old_html != updated_document.html
SerializerSave(p) ==
    /\ reqs[p].pc = "serializer_save"
    /\ documents' = [documents EXCEPT ![reqs[p].doc] = serializer_update(reqs[p].instance, reqs[p].html)]
    /\ UNCHANGED <<versions, acl, shareLinks, now, audit, auditOk, qrLinks>>
    /\ IF reqs[p].old_html = serializer_update(reqs[p].instance, reqs[p].html).html
       THEN Finish(p, "document_update", 200, "unchanged")
       ELSE /\ reqs' = [reqs EXCEPT ![p].pc = "version_create",
                                    ![p].instance = serializer_update(reqs[p].instance, reqs[p].html),
                                    ![p].new_version_no = reqs[p].instance.current_version_no + 1]
            /\ UNCHANGED last

\* perform_update: DocumentVersion.objects.create(version_no=new_version_no, ...)
VersionCreate(p) ==
    /\ reqs[p].pc = "version_create"
    /\ UNCHANGED <<documents, acl, shareLinks, now, audit, auditOk, qrLinks>>
    /\ IF version_insert_fails(reqs[p].doc, reqs[p].new_version_no)
       THEN /\ Finish(p, "document_update", 500, "IntegrityError")
            /\ UNCHANGED versions
       ELSE /\ versions' = versions \cup
                  {VersionRow(reqs[p].doc, reqs[p].new_version_no, reqs[p].instance.html,
                              reqs[p].instance.text, reqs[p].user)}
            /\ reqs' = [reqs EXCEPT ![p].pc = "document_save"]
            /\ UNCHANGED last

\* perform_update: updated_document.current_version_no = new_version_no; updated_document.save()
DocumentSave(p) ==
    /\ reqs[p].pc = "document_save"
    /\ documents' = [documents EXCEPT ![reqs[p].doc] =
                        [reqs[p].instance EXCEPT !.current_version_no = reqs[p].new_version_no]]
    /\ UNCHANGED <<versions, acl, shareLinks, now, auditOk, qrLinks>>
    /\ audit' = log_document_edit(reqs[p].user, reqs[p].doc, reqs[p].new_version_no).table
    /\ reqs' = [reqs EXCEPT ![p] = Idle]
    /\ last' = Responded(log_document_edit(reqs[p].user, reqs[p].doc, reqs[p].new_version_no),
                         Result("document_update", reqs[p].user, reqs[p].doc, reqs[p].target, 200, ""),
                         500)

versions_of(d) == {v \in versions : v.document = d}

\* document_restore_version up to new_version_no = document.current_version_no + 1;
\* Http404 of get_object_or_404 is caught by the handler's except Exception
RestoreBegin(p, u, d, target) ==
    /\ reqs[p].pc = "idle"
    /\ UNCHANGED <<documents, versions, acl, shareLinks, now, audit, auditOk, qrLinks>>
    /\ IF ~is_authenticated(u)
       THEN /\ last' = Result("document_restore_version", u, d, target, 401, "")
            /\ UNCHANGED reqs
       ELSE IF ~Live(d)
       THEN /\ last' = Result("document_restore_version", u, d, target, 500, "Http404")
            /\ UNCHANGED reqs
       ELSE IF ~has_object_permission(u, "POST", d) \/ ~user_can_perform_action(u, d, EDIT)
       THEN /\ last' = Result("document_restore_version", u, d, target, 403, "")
            /\ UNCHANGED reqs
       ELSE IF \A v \in versions_of(d) : v.version_no # target
       THEN /\ last' = Result("document_restore_version", u, d, target, 500, "Http404")
            /\ UNCHANGED reqs
       ELSE /\ documents[d].current_version_no < MaxVersion
            /\ reqs' = [reqs EXCEPT ![p] =
                          [Idle EXCEPT !.pc = "restore_create", !.kind = "restore", !.user = u,
                                       !.doc = d, !.target = target, !.instance = documents[d],
                                       !.restore_version =
                                           CHOOSE v \in versions_of(d) : v.version_no = target,
                                       !.new_version_no = documents[d].current_version_no + 1]]
            /\ UNCHANGED last

\* document_restore_version: DocumentVersion.objects.create(version_no=new_version_no, ...)
RestoreCreate(p) ==
    /\ reqs[p].pc = "restore_create"
    /\ UNCHANGED <<documents, acl, shareLinks, now, audit, auditOk, qrLinks>>
    /\ IF version_insert_fails(reqs[p].doc, reqs[p].new_version_no)
       THEN /\ Finish(p, "document_restore_version", 500, "IntegrityError")
            /\ UNCHANGED versions
       ELSE /\ versions' = versions \cup
                  {VersionRow(reqs[p].doc, reqs[p].new_version_no, reqs[p].restore_version.html,
                              reqs[p].restore_version.text, reqs[p].user)}
            /\ reqs' = [reqs EXCEPT ![p].pc = "restore_save"]
            /\ UNCHANGED last

\* document_restore_version: document.html/text/current_version_no = ...; document.save()
RestoreSave(p) ==
    /\ reqs[p].pc = "restore_save"
    /\ documents' = [documents EXCEPT ![reqs[p].doc] =
                        [reqs[p].instance EXCEPT !.html = reqs[p].restore_version.html,
                                                 !.text = reqs[p].restore_version.text,
                                                 !.current_version_no = reqs[p].new_version_no]]
    /\ UNCHANGED <<versions, acl, shareLinks, now, auditOk, qrLinks>>
    /\ audit' = log_document_edit(reqs[p].user, reqs[p].doc, reqs[p].new_version_no).table
    /\ reqs' = [reqs EXCEPT ![p] = Idle]
    /\ last' = Responded(log_document_edit(reqs[p].user, reqs[p].doc, reqs[p].new_version_no),
                         Result("document_restore_version", reqs[p].user, reqs[p].doc,
                                reqs[p].target, 200, ""),
                         500)

Editors == {1, 2}

UpdateRequest ==
    \/ \E p \in Procs, u \in Editors, d \in DocIds, html \in Htmls : UpdateGetObject(p, u, d, html)
    \/ \E p \in Procs : PerformUpdateGetObject(p)
    \/ \E p \in Procs : SerializerSave(p)
    \/ \E p \in Procs : VersionCreate(p)
    \/ \E p \in Procs : DocumentSave(p)

RestoreRequest ==
    \/ \E p \in Procs, u \in Editors, d \in DocIds, target \in 1..MaxVersion :
          RestoreBegin(p, u, d, target)
    \/ \E p \in Procs : RestoreCreate(p)
    \/ \E p \in Procs : RestoreSave(p)

CreateRequest == \E html \in Htmls : DocumentListCreateView_post(1, html)

NextVer == CreateRequest \/ UpdateRequest \/ RestoreRequest

SpecVer == Init /\ [][NextVer]_vars

\* ---------------------------------------------------------------- claims on the version ledger
Quiescent == \A p \in Procs : reqs[p].pc = "idle"

max_version_no(d) ==
    CHOOSE n \in {v.version_no : v \in versions_of(d)} :
        \A v \in versions_of(d) : v.version_no <= n

\* C2: when no request is in flight, no two version rows of a document share a
\* version_no, and current_version_no is the value at creation (1) plus the
\* number of appends that succeeded (one row each).
C2_Original ==
    Quiescent =>
        \A d \in DocIds : Live(d) =>
            /\ \A v, w \in versions_of(d) : v.version_no = w.version_no => v = w
            /\ documents[d].current_version_no = 1 + (Cardinality(versions_of(d)) - 1)

\* C3: when no request is in flight, current_version_no of every document is
\* the largest version_no among its version rows.
C3_Original ==
    Quiescent =>
        \A d \in DocIds : Live(d) =>
            /\ versions_of(d) # {}
            /\ documents[d].current_version_no = max_version_no(d)

RestoreAppends(p) ==
    /\ reqs[p].pc = "restore_create"
    /\ reqs'[p].pc = "restore_save"
    /\ \E row \in versions' \ versions :
          /\ versions' = versions \cup {row}
          /\ row.document = reqs[p].doc
          /\ row.version_no = reqs[p].instance.current_version_no + 1
          /\ row.html = reqs[p].restore_version.html
          /\ row.text = reqs[p].restore_version.text

RestoreAdvances(p) ==
    /\ versions' = versions
    /\ documents'[reqs[p].doc].current_version_no = max_version_no(reqs[p].doc)
    /\ documents'[reqs[p].doc].current_version_no = reqs[p].instance.current_version_no + 1

C10_RestoreStep ==
    \A p \in Procs :
        /\ (reqs[p].pc = "restore_create" /\ reqs'[p] # reqs[p]) => RestoreAppends(p)
        /\ (reqs[p].pc = "restore_save" /\ reqs'[p] # reqs[p]) => RestoreAdvances(p)

\* C10: a restore of an existing version V of a live document by a caller with
\* EDIT changes no existing version row, appends one row numbered
\* current_version_no (as read by the call) + 1 with V's html and text, and
\* leaves current_version_no at that number.
C10_Original == [][C10_RestoreStep]_vars

\* ---------------------------------------------------------------- claims on stored rows
C11_VersionsKept == \A v \in versions : v \in versions'

\* C11: no step mutates or deletes a version row: every row of the
\* DocumentVersion table before a step is in the table, unchanged, after it.
C11_Original == [][C11_VersionsKept]_vars

\* C12: every ShareLink row holds role VIEWER whatever role its creator sent,
\* and a share_link_access answered 200 reports VIEWER, the role of the
\* ShareLink row, also when the ACL row of that link holds a higher role.
C12_LinkRoleIsViewer ==
    /\ \A l \in shareLinks : l.role = VIEWER
    /\ (last.op = "share_link_access" /\ last.status = 200) => last.result = VIEWER

\* an access by token answered 200 with VIEWER while the ACL row of the link is OWNER
C12_Witness ==
    /\ last.op = "share_link_access" /\ last.status = 200 /\ last.result = VIEWER
    /\ \E l \in share_link_lookup(last.doc) :
          \E r \in acl_matching(l.document, "share_link", l.id) : r.role = OWNER

\* C13: a revoked link has no share_link ACL row, in every state a request can
\* observe.
C13_Original ==
    \A l \in shareLinks :
        Revoked(l) => acl_matching(l.document, "share_link", l.id) = {}

\* C14: every ACL row with subject_type share_link has role VIEWER.
C14_Original ==
    \A r \in acl : r.subject_type = "share_link" => r.role = VIEWER

\* ---------------------------------------------------------------- claims on the grant store
SameKey(r, q) ==
    r.document = q.document /\ r.subject_type = q.subject_type /\ r.subject_id = q.subject_id

OneRowPerKey == \A r, q \in acl : SameKey(r, q) => r = q

GrantStep ==
    /\ last'.op \in {"document_share_create", "document_acl_list_create"}
    /\ acl' # acl

\* a grant step keeps every row under its id and key, and adds a row only for
\* a key that had none
C15_UpsertStep ==
    GrantStep =>
        /\ \A r \in acl : \E q \in acl' : q.id = r.id /\ SameKey(q, r)
        /\ \A q \in acl' : (\E r \in acl : SameKey(q, r)) =>
                               (\E r \in acl : q.id = r.id /\ SameKey(q, r))

\* C15: grant requests handled one after another leave at most one ACL row per
\* (document, subject_type, subject_id); a grant to a key that has a row,
\* active or expired, rewrites that row and adds none.
C15_UpsertReplaces == []OneRowPerKey /\ [][C15_UpsertStep]_vars

\* a grant answered 200 (row found and updated) after the clock passed the
\* only expiry a row can carry; the table holds that one row, now without expiry
C15_Witness ==
    /\ last.op = "document_acl_list_create" /\ last.status = 200
    /\ now > 1
    /\ \E r \in acl : acl = {r} /\ r.expires_at = Null

\* ---------------------------------------------------------------- concurrent grants
\* update_or_create is a SELECT followed, when no row matched, by an INSERT;
\* ACL has no unique constraint on its key, so the INSERT cannot fail.
\* Primary keys are uuid4 values: which of two rows sorts first is arbitrary.
AclIds == {1, 2}

\* document_acl_list_create up to the SELECT of update_or_create; a matching
\* row is locked (select_for_update) and rewritten in the same transaction
acl_list_create_get(p, u, d, b) ==
    /\ reqs[p].pc = "idle"
    /\ UNCHANGED <<documents, versions, shareLinks, now, auditOk, qrLinks>>
    /\ IF ~is_authenticated(u)
       THEN /\ last' = Result("document_acl_list_create", u, d, "", 401, "")
            /\ UNCHANGED <<acl, reqs, audit>>
       ELSE IF ~Live(d)
       THEN /\ last' = Result("document_acl_list_create", u, d, "", 404, "")
            /\ UNCHANGED <<acl, reqs, audit>>
       ELSE IF ~user_can_perform_action(u, d, SHARE)
       THEN /\ last' = Result("document_acl_list_create", u, d, "", 403, "")
            /\ UNCHANGED <<acl, reqs, audit>>
       ELSE IF b.subject_type \notin {"user", "group"} \/ b.role \notin {VIEWER, EDITOR, OWNER}
       THEN /\ last' = Result("document_acl_list_create", u, d, "", 400, "")
            /\ UNCHANGED <<acl, reqs, audit>>
       ELSE IF ~SubjectExists(b.subject_type, b.subject_id)
       THEN /\ last' = Result("document_acl_list_create", u, d, "", 404, "")
            /\ UNCHANGED <<acl, reqs, audit>>
       ELSE IF Cardinality(acl_matching(d, b.subject_type, b.subject_id)) > 1
       THEN /\ last' = Result("document_acl_list_create", u, d, "", 500, "MultipleObjectsReturned")
            /\ UNCHANGED <<acl, reqs, audit>>
       ELSE IF acl_matching(d, b.subject_type, b.subject_id) # {}
       THEN /\ acl' = update_or_create(d, b.subject_type, b.subject_id, b.role, b.expires_at)
            /\ audit' = log_document_share(u, d).table
            /\ last' = Responded(log_document_share(u, d),
                                 Result("document_acl_list_create", u, d, "", 200, b.role), 500)
            /\ UNCHANGED reqs
       ELSE /\ reqs' = [reqs EXCEPT ![p] =
                          [Idle EXCEPT !.pc = "acl_insert", !.kind = "grant", !.user = u,
                                       !.doc = d, !.body = b]]
            /\ UNCHANGED <<acl, last, audit>>

\* update_or_create: the INSERT of get_or_create, then the 201 response
acl_list_create_insert(p, id) ==
    /\ reqs[p].pc = "acl_insert"
    /\ \A r \in acl : r.id # id
    /\ UNCHANGED <<documents, versions, shareLinks, now, auditOk, qrLinks>>
    /\ reqs' = [reqs EXCEPT ![p] = Idle]
    /\ IF ~Live(reqs[p].doc)
       THEN /\ last' = Result("document_acl_list_create", reqs[p].user, reqs[p].doc, "", 500, "IntegrityError")
            /\ UNCHANGED <<acl, audit>>
       ELSE /\ acl' = acl \cup
                {[id |-> id, document |-> reqs[p].doc,
                  subject_type |-> reqs[p].body.subject_type,
                  subject_id |-> reqs[p].body.subject_id,
                  role |-> reqs[p].body.role, expires_at |-> reqs[p].body.expires_at]}
            /\ audit' = log_document_share(reqs[p].user, reqs[p].doc).table
            /\ last' = Responded(log_document_share(reqs[p].user, reqs[p].doc),
                                 Result("document_acl_list_create", reqs[p].user, reqs[p].doc, "",
                                        201, reqs[p].body.role), 500)

RaceBodies ==
    [subject_type : {"user"}, subject_id : GrantUsers, role : {VIEWER, EDITOR}, expires_at : {Null}]

ConcurrentGrant ==
    \/ \E p \in Procs, u \in {1, 2}, d \in DocIds, b \in RaceBodies : acl_list_create_get(p, u, d, b)
    \/ \E p \in Procs, id \in AclIds : acl_list_create_insert(p, id)

GrantOther ==
    \/ \E row \in acl : document_acl_detail(1, "DELETE", row.document, row, NoChange, KeepExpiry)
    \/ \E u \in GrantUsers, d \in DocIds : ResolveRole(u, d)

NextGrant == ConcurrentGrant \/ GrantOther

SpecGrant == InitLink /\ [][NextGrant]_vars

\* ---------------------------------------------------------------- claims on concurrent grants
\* C16: concurrent grant requests for one key leave one row for the key and
\* none of them is answered with a server error.
C16_Original ==
    /\ \A r, q \in acl : SameKey(r, q) => r = q
    /\ last.op = "document_acl_list_create" => last.status # 500

\* C17: the resolved role of a non-administrator is at least the role of every
\* active direct row of the user, whichever primary keys (and so which order of
\* discovery) the rows have.
C17_Original ==
    \A u \in NonAdmins, d \in DocIds :
        Live(d) => \A r \in DirectGrants(u, d) : AtLeast(get_user_effective_role(u, d), r.role)

\* ---------------------------------------------------------------- audit specification
\* AuditLog.objects.create starts or stops failing (table locked, disk full, ...)
AuditStore(ok) ==
    /\ auditOk # ok
    /\ auditOk' = ok
    /\ UNCHANGED <<documents, versions, acl, shareLinks, now, reqs, last, audit, qrLinks>>

\* DocumentDetailView.get: RetrieveModelMixin.retrieve, then log_document_view on 200
DocumentDetailView_get(u, d) ==
    /\ UNCHANGED <<documents, versions, acl, shareLinks, now, reqs, auditOk, qrLinks>>
    /\ IF ~is_authenticated(u)
       THEN /\ last' = Result("document_get", u, d, "", 401, "")
            /\ UNCHANGED audit
       ELSE IF d \notin detail_queryset(u)
       THEN /\ last' = Result("document_get", u, d, "", 404, "")
            /\ UNCHANGED audit
       ELSE IF ~has_object_permission(u, "GET", d)
       THEN /\ last' = Result("document_get", u, d, "", 403, "")
            /\ UNCHANGED audit
       ELSE /\ audit' = log_document_view(u, d).table
            /\ last' = Responded(log_document_view(u, d),
                                 Result("document_get", u, d, "", 200, documents[d].html), 500)

AuditProcs == {1}

\* the table is capped at MaxAudit rows: no request runs against a full, writable table
AuditRoom == ~auditOk \/ Cardinality(audit) < MaxAudit

AuditedView == AuditRoom /\ \E u \in {1, 2}, d \in DocIds : DocumentDetailView_get(u, d)

AuditedCreate == AuditRoom /\ DocumentListCreateView_post(1, <<"b">>)

\* one restore of version 1 by the owner
AuditedRestore ==
    /\ AuditRoom
    /\ \/ \E d \in DocIds : Cardinality(versions_of(d)) = 1 /\ RestoreBegin(1, 1, d, 1)
       \/ \E p \in AuditProcs : RestoreCreate(p)
       \/ \E p \in AuditProcs : RestoreSave(p)

AuditedShare ==
    /\ AuditRoom
    /\ \/ \E d \in DocIds : document_share_create(1, d, "user", 2, VIEWER, Null)
       \/ \E row \in acl : document_acl_detail(1, "DELETE", row.document, row, NoChange, KeepExpiry)

\* one share link: created, resolved by token, revoked
AuditedLink ==
    /\ AuditRoom
    /\ \/ \E d \in DocIds : shareLinks = {} /\ document_share_links_save(1, 1, d, OWNER, Null)
       \/ \E p \in AuditProcs : document_share_links_acl(p)
       \/ \E l \in shareLinks : share_link_revoke_begin(1, 1, l.id)
       \/ \E p \in AuditProcs : share_link_revoke_save(p)
       \/ \E p \in AuditProcs : share_link_revoke_acl(p)
       \/ \E l \in shareLinks : share_link_access(l.token)

AuditedDelete == AuditRoom /\ \E d \in DocIds : DocumentDetailView_delete(1, d)

AuditStoreChange == \E ok \in BOOLEAN : AuditStore(ok)

NextAudit ==
    \/ AuditedView \/ AuditedCreate \/ AuditedRestore \/ AuditedShare
    \/ AuditedLink \/ AuditedDelete \/ AuditStoreChange

SpecAudit == Init /\ [][NextAudit]_vars

\* ---------------------------------------------------------------- claims on the audit recorder
\* what each logging handler answers and stores when its audit write fails
C18_FailedWriteStep ==
    ~auditOk =>
        /\ last'.result # "audit"
        /\ (last' # last /\ last'.op # "document_delete") => audit' = audit
        /\ \A u \in AuthUsers, d \in DocIds :
              (DocumentDetailView_get(u, d) /\ d \in detail_queryset(u)
                                            /\ has_object_permission(u, "GET", d))
                  => last'.status = 200 /\ last'.result = documents[d].html
        /\ \A d \in DocIds :
              (document_share_create(1, d, "user", 2, VIEWER, Null)
                  /\ Live(d) /\ user_can_perform_action(1, d, SHARE))
                  => last'.status = 201 /\ acl' = update_or_create(d, "user", 2, VIEWER, Null)
        /\ \A row \in acl :
              (document_acl_detail(1, "DELETE", row.document, row, NoChange, KeepExpiry)
                  /\ user_can_perform_action(1, row.document, SHARE))
                  => last'.status = 204 /\ row \notin acl'
        /\ \A p \in AuditProcs :
              RestoreSave(p)
                  => /\ last'.status = 200
                     /\ documents'[reqs[p].doc].current_version_no = reqs[p].new_version_no
                     /\ documents'[reqs[p].doc].html = reqs[p].restore_version.html
        /\ DocumentListCreateView_post(1, <<"b">>) => last'.status = 201 /\ versions' # versions

\* C18: a failing audit write never propagates: log_audit_event writes nothing
\* and the view, share, revoke, restore or create it describes answers and
\* stores what it does when the write succeeds.
C18_AuditFailureSwallowed == [][C18_FailedWriteStep]_vars

\* a view answered 200 with the document although no audit row was ever
\* written (the table is empty): the write of that view, and of the create
\* before it, failed
C18_Witness ==
    /\ last.op = "document_get" /\ last.status = 200 /\ last.result = <<"b">>
    /\ audit = {}
    /\ Live(1)

AuditedOps ==
    {"document_get", "document_update", "document_restore_version", "document_share_create",
     "document_acl_list_create", "document_acl_detail", "share_update_delete",
     "document_share_links", "share_link_revoke", "share_link_access"}

\* C19: every view, edit, share or revoke request that is answered, allowed or
\* denied, appends an audit row (the audit store accepting writes).
C19_Original ==
    [][(auditOk /\ last' # last /\ last'.op \in AuditedOps) => audit' # audit /\ audit \subseteq audit']_vars

\* C20: no step updates or deletes an audit row: every row of the table before
\* a step is in the table after it with every field unchanged.
C20_Original == [][\A a \in audit : a \in audit']_vars

\* ---------------------------------------------------------------- claims on failure outcomes
RestoreOfMissingVersion(p, u, d, target) ==
    /\ RestoreBegin(p, u, d, target)
    /\ Live(d)
    /\ has_object_permission(u, "POST", d) /\ user_can_perform_action(u, d, EDIT)
    /\ \A v \in versions_of(d) : v.version_no # target

\* C21: a restore, by a caller allowed to edit, of a version the document does
\* not have is answered 404 (not 403, not 500) and leaves the document, its
\* current_version_no and its version rows as they were.
C21_Original ==
    [][\A p \in Procs, u \in Editors, d \in DocIds, target \in 1..MaxVersion :
          RestoreOfMissingVersion(p, u, d, target) =>
              /\ last'.status = 404
              /\ documents' = documents
              /\ versions' = versions]_vars

\* ---------------------------------------------------------------- requests that stop
\* One request at a time, so that what a request leaves behind is its own
\* doing. No statement of perform_update or document_restore_version runs
\* inside transaction.atomic: each ORM statement commits by itself.
StopProcs == {1}

\* the handler a request in flight belongs to
request_op(kind) ==
    CASE kind = "update" -> "document_update"
      [] kind = "restore" -> "document_restore_version"
      [] OTHER -> "document_acl_detail"

\* the worker is killed or loses its database connection between two statements
RequestStops(p) ==
    /\ reqs[p].pc # "idle"
    /\ reqs' = [reqs EXCEPT ![p] = Idle]
    /\ last' = Result(request_op(reqs[p].kind),
                      reqs[p].user, reqs[p].doc, reqs[p].target, 0, "stopped")
    /\ UNCHANGED <<documents, versions, acl, shareLinks, now, audit, auditOk, qrLinks>>

\* DocumentVersion.objects.create raises a DatabaseError: nothing is inserted;
\* perform_update lets it escape (500), document_restore_version catches it (500)
VersionWriteFails(p) ==
    /\ reqs[p].pc \in {"version_create", "restore_create"}
    /\ Finish(p, IF reqs[p].kind = "update" THEN "document_update"
                 ELSE "document_restore_version", 500, "DatabaseError")
    /\ UNCHANGED <<documents, versions, acl, shareLinks, now, audit, auditOk, qrLinks>>

StopUpdate ==
    \/ \E p \in StopProcs, d \in DocIds, html \in Htmls : UpdateGetObject(p, 1, d, html)
    \/ \E p \in StopProcs : PerformUpdateGetObject(p)
    \/ \E p \in StopProcs : SerializerSave(p)
    \/ \E p \in StopProcs : VersionCreate(p)
    \/ \E p \in StopProcs : DocumentSave(p)

StopRestore ==
    \/ \E p \in StopProcs, d \in DocIds, target \in 1..MaxVersion : RestoreBegin(p, 1, d, target)
    \/ \E p \in StopProcs : RestoreCreate(p)
    \/ \E p \in StopProcs : RestoreSave(p)

StopFault ==
    \/ \E p \in StopProcs : RequestStops(p)
    \/ \E p \in StopProcs : VersionWriteFails(p)

NextStop == CreateRequest \/ StopUpdate \/ StopRestore \/ StopFault

SpecStop == Init /\ [][NextStop]_vars

\* the request of p ends in this step
Ends(p) == reqs[p].pc # "idle" /\ reqs'[p].pc = "idle"

\* the version row of the request of p is in the table after the step
RowWritten(p) ==
    \E v \in versions' : v.document = reqs[p].doc /\ v.version_no = reqs[p].new_version_no
                         /\ v.html = documents'[reqs[p].doc].html

\* the document row as the request of p found it
FoundDocument(p) ==
    IF reqs[p].kind = "update" /\ reqs[p].pc \in {"version_create", "document_save"}
    THEN [reqs[p].instance EXCEPT !.html = reqs[p].old_html, !.text = get_text(reqs[p].old_html)]
    ELSE reqs[p].instance

AllApplied(p) ==
    /\ reqs[p].pc \in {"document_save", "restore_save"}
    /\ documents'[reqs[p].doc].current_version_no = reqs[p].new_version_no
    /\ RowWritten(p)

NoneApplied(p) ==
    /\ reqs[p].pc \notin {"document_save", "restore_save"}
    /\ documents'[reqs[p].doc] = FoundDocument(p)
    /\ versions' = versions

\* C22: however an edit or a restore ends (answered, stopped, or its version
\* write failed), either the version row, the new content and the advanced
\* current_version_no are all stored, or the document and its ledger are as
\* the request found them.
C22_Original ==
    [][\A p \in StopProcs : Ends(p) => AllApplied(p) \/ NoneApplied(p)]_vars

MaySetGrants(u, d) ==
    is_authenticated(u) /\ Live(d) /\ user_can_perform_action(u, d, SHARE)

InvalidGrant(subject_type, role) ==
    subject_type \notin {"user", "group"} \/ role \notin Roles

RejectedInvalid == last'.status = 400 /\ acl' = acl

\* C23: a grant request of a caller allowed to share, whose role is not OWNER,
\* EDITOR or VIEWER or whose subject type is not user or group, is answered 400
\* by each of the four grant handlers and leaves the ACL table as it was.
C23_Original ==
    [][\A u \in AuthUsers, d \in DocIds : MaySetGrants(u, d) =>
          /\ \A b \in GrantBodies : InvalidGrant(b.subject_type, b.role) =>
                /\ document_share_create(u, d, b.subject_type, b.subject_id, b.role, b.expires_at)
                      => RejectedInvalid
                /\ document_acl_list_create(u, d, b.subject_type, b.subject_id, b.role, b.expires_at)
                      => RejectedInvalid
          /\ \A row \in acl, b \in UpdateBodies : (row.document = d /\ b.role = BOGUS) =>
                /\ document_acl_detail(u, "PUT", d, row, b.role, b.expires_at) => RejectedInvalid
                /\ (documents[d].owner = u \/ is_admin(u)) =>
                      (share_update_delete(u, "PUT", row, b.role) => RejectedInvalid)]_vars

\* ---------------------------------------------------------------- QR resolution
\* the query parameter owner of the list request, given by the set of users
\* whose username contains it (owner__username__icontains); absent or empty
\* when NoOwnerFilter
NoOwnerFilter == {Null}
OwnerFilters == {NoOwnerFilter, {1}, {2}}

list_queryset_bad(u, owner_filter) ==
    IF is_admin(u)
    THEN {d \in DocIds : Live(d) /\ (owner_filter = NoOwnerFilter \/ documents[d].owner \in owner_filter)}
    ELSE {d \in DocIds : Live(d) /\
            (\/ documents[d].owner = u
             \/ d \in {r.document : r \in {q \in acl : q.subject_type = "user" /\ q.subject_id = u}}
             \/ d \in {r.document : r \in {q \in acl : q.subject_type = "group"
                                                       /\ q.subject_id \in user_groups(u)}})}

\* DocumentListCreateView.get_queryset, reached by authenticated callers only
list_queryset(u, owner_filter) ==
    IF is_admin(u)
    THEN {d \in DocIds : Live(d) /\ (owner_filter = NoOwnerFilter \/ documents[d].owner \in owner_filter)}
    ELSE {d \in DocIds : Live(d) /\
            (\/ documents[d].owner = u
             \/ d \in {r.document : r \in {q \in acl : q.subject_type = "user" /\ q.subject_id = u
                                                       /\ not_expired(q, now)}}
             \/ d \in {r.document : r \in {q \in acl : q.subject_type = "group"
                                                       /\ q.subject_id \in user_groups(u)
                                                       /\ not_expired(q, now)}})}

\* views._permission_filter_queryset
permission_filter_queryset(u) ==
    IF ~is_authenticated(u) THEN {}
    ELSE IF is_admin(u) THEN {d \in DocIds : Live(d)}
    ELSE {d \in DocIds : Live(d) /\
            (\/ documents[d].owner = u
             \/ d \in {r.document : r \in {q \in acl : q.subject_type = "user" /\ q.subject_id = u
                                                       /\ not_expired(q, now)}}
             \/ d \in {r.document : r \in {q \in acl : q.subject_type = "group"
                                                       /\ q.subject_id \in user_groups(u)
                                                       /\ not_expired(q, now)}})}

UnknownCode == 9                \* a code no QRLink row has
QrCodes == DocIds \cup {UnknownCode}

\* what detectAndDecode returns for the uploaded image: nothing, a bare code,
\* or the resolve URL of a code
QrScans == [kind : {"none"}, code : {UnknownCode}] \cup [kind : {"code", "url"}, code : QrCodes]

\* re.search(r"/qr/resolve/([^/]+)/?", val): the code inside the URL, else val itself
scanned_code(val) == val.code

\* QRLink rows of document 1 as an administrator can have left them
QrTables ==
    {{}} \cup {{[QRRow(1) EXCEPT !.active = a, !.expires_at = e]} :
                  a \in BOOLEAN, e \in {Null} \cup (1..MaxTime)}

\* views.resolve_qr (GET qr/resolve/<code>/)
resolve_qr(code) ==
    /\ UNCHANGED <<documents, versions, acl, shareLinks, now, reqs, audit, auditOk, qrLinks>>
    /\ LET found == {q \in qrLinks : q.code = code}
       IN  IF found = {} \/ \A q \in found : ~q.active
           THEN last' = Result("resolve_qr", Anon, 0, code, 404, "")
           ELSE IF \E q \in found : q.expires_at # Null /\ q.expires_at < now
           THEN last' = Result("resolve_qr", Anon, 0, code, 410, "")
           ELSE last' = Result("resolve_qr", Anon, (CHOOSE q \in found : TRUE).document,
                               code, 200, "")

\* views.search_qr (POST search/qr/); the 200 body is DocumentSerializer data,
\* whose user_role is get_user_effective_role(request.user, document)
search_qr(u, val) ==
    /\ UNCHANGED <<documents, versions, acl, shareLinks, now, reqs, audit, auditOk, qrLinks>>
    /\ LET found == {q \in qrLinks : q.code = scanned_code(val) /\ q.active}
       IN  IF val.kind = "none"
           THEN last' = Result("search_qr", u, 0, val.code, 400, "")
           ELSE IF found = {}
           THEN last' = Result("search_qr", u, 0, val.code, 404, "")
           ELSE IF (CHOOSE q \in found : TRUE).document \notin permission_filter_queryset(u)
           THEN last' = Result("search_qr", u, 0, val.code, 403, "")
           ELSE last' = Result("search_qr", u, (CHOOSE q \in found : TRUE).document, val.code, 200,
                               get_user_effective_role(u, (CHOOSE q \in found : TRUE).document))

\* user 1 has created document 1; user 2 may hold a VIEWER grant
InitQR ==
    /\ documents = [d \in DocIds |->
                       [state |-> "live", owner |-> 1, html |-> <<"b">>,
                        text |-> <<"b">>, current_version_no |-> 1]]
    /\ versions = {VersionRow(1, 1, <<"b">>, <<"b">>, 1)}
    /\ acl \in {{}, {AclRow("user", 2, VIEWER, Null)}}
    /\ shareLinks = {}
    /\ now = 0
    /\ reqs = [p \in Procs |-> Idle]
    /\ last = Result("", Anon, 0, "", 0, "")
    /\ audit = {}
    /\ auditOk = FALSE
    /\ qrLinks \in QrTables

NextQR ==
    \/ \E code \in QrCodes : resolve_qr(code)
    \/ \E u \in AllUsers, val \in QrScans : search_qr(u, val)
    \/ Tick

SpecQR == InitQR /\ [][NextQR]_vars

QrOps == {"resolve_qr", "search_qr"}

\* the row of the code is there, active and not past its expires_at
QrUsable(code) ==
    \E q \in qrLinks : q.code = code /\ q.active
                       /\ (q.expires_at = Null \/ q.expires_at >= now)

\* C24: resolve_qr and search_qr answer 200 only for a code whose row exists,
\* is active and is not past its expires_at, and the answer names the document
\* and carries no role.
C24_Original ==
    [][(last' # last /\ last'.op \in QrOps /\ last'.status = 200) =>
          /\ QrUsable(last'.arg)
          /\ last'.doc \in DocIds
          /\ last'.result = ""]_vars

\* ---------------------------------------------------------------- audit queries
PollLimit == 20                 \* [:20] of document_events_poll
DefaultPageSize == 50           \* request.GET.get('page_size', 50)

\* ORDER BY ts leaves rows of equal ts in an order the database picks
TieOrders == {"low", "high"}

ts_before(r, q, ascending, tie) ==
    \/ (IF ascending THEN r.ts < q.ts ELSE r.ts > q.ts)
    \/ r.ts = q.ts /\ (IF tie = "low" THEN r.id <= q.id ELSE r.id >= q.id)

\* rows.order_by('ts') / order_by('-ts') as the list of row ids
RECURSIVE order_by_ts(_, _, _)
order_by_ts(rows, ascending, tie) ==
    IF rows = {} THEN <<>>
    ELSE LET r == CHOOSE x \in rows : \A q \in rows : ts_before(x, q, ascending, tie)
         IN  <<r.id>> \o order_by_ts(rows \ {r}, ascending, tie)

\* Python slice seq[start:end]
slice(seq, start, end) ==
    SubSeq(seq, start + 1, IF end < Len(seq) THEN end ELSE Len(seq))

events_since_bad(table, u, d, since) ==
    {a \in table : a.document = d /\ a.ts >= since /\ a.actor_user # u}

\* AuditLog.objects.filter(document=document, ts__gt=since_dt).exclude(actor_user=request.user)
events_since(table, u, d, since) ==
    {a \in table : a.document = d /\ a.ts > since /\ a.actor_user # u}

\* views.document_events_poll (GET documents/<id>/events/?since=); Null is a
\* missing or unparsable since
document_events_poll(u, d, since, tie) ==
    /\ UNCHANGED <<documents, versions, acl, shareLinks, now, reqs, audit, auditOk, qrLinks>>
    /\ IF ~is_authenticated(u)
       THEN last' = Result("document_events_poll", u, d, since, 401, <<>>)
       ELSE IF ~Live(d)
       THEN last' = Result("document_events_poll", u, d, since, 404, <<>>)
       ELSE IF ~has_object_permission(u, "GET", d)
       THEN last' = Result("document_events_poll", u, d, since, 403, <<>>)
       ELSE IF since = Null
       THEN last' = Result("document_events_poll", u, d, since, 400, <<>>)
       ELSE last' = Result("document_events_poll", u, d, since, 200,
                           slice(order_by_ts(events_since(audit, u, d, since), TRUE, tie),
                                 0, PollLimit))

\* views.document_audit_log (GET documents/<id>/audit/): the page is a lazy
\* queryset, read when the response is built, after the handler's own VIEW
\* row was written
document_audit_log(u, d, page, tie) ==
    /\ UNCHANGED <<documents, versions, acl, shareLinks, now, reqs, auditOk, qrLinks>>
    /\ IF ~is_authenticated(u)
       THEN /\ last' = Result("document_audit_log", u, d, page, 401, <<>>)
            /\ UNCHANGED audit
       ELSE IF ~Live(d)
       THEN /\ last' = Result("document_audit_log", u, d, page, 500, <<>>)
            /\ UNCHANGED audit
       ELSE IF ~has_object_permission(u, "GET", d)
       THEN /\ last' = Result("document_audit_log", u, d, page, 403, <<>>)
            /\ UNCHANGED audit
       ELSE /\ audit' = log_audit_event(VIEW, u, d, Null).table
            /\ last' = Result("document_audit_log", u, d, page, 200,
                              slice(order_by_ts({a \in log_audit_event(VIEW, u, d, Null).table :
                                                    a.document = d}, FALSE, tie),
                                    (page - 1) * DefaultPageSize, page * DefaultPageSize))

\* audit tables of 0, 3 and 60 rows: actors 1 and 2 alternate, timestamps cycle
\* through the clock values, every seventh row belongs to no document any more
PollSizes == {0, 3, 60}

SeedRow(i) ==
    [AuditRow(i, IF i % 2 = 0 THEN VIEW ELSE EDIT, (i % 2) + 1,
              IF i % 7 = 0 THEN Null ELSE 1, Null)
        EXCEPT !.ts = i % (MaxTime + 1)]

\* user 1 has created document 1; user 2 may hold a VIEWER grant; the clock is
\* at or past every timestamp of the table
InitPoll ==
    /\ documents = [d \in DocIds |->
                       [state |-> "live", owner |-> 1, html |-> <<"b">>,
                        text |-> <<"b">>, current_version_no |-> 1]]
    /\ versions = {VersionRow(1, 1, <<"b">>, <<"b">>, 1)}
    /\ acl \in {{}, {AclRow("user", 2, VIEWER, Null)}}
    /\ shareLinks = {}
    /\ now = MaxTime
    /\ reqs = [p \in Procs |-> Idle]
    /\ last = Result("", Anon, 0, "", 0, "")
    /\ \E n \in PollSizes : audit = {SeedRow(i) : i \in 1..n}
    /\ auditOk \in BOOLEAN
    /\ qrLinks = {QRRow(1)}

PollRoom ==
    ~auditOk \/ \E n \in PollSizes : Cardinality(audit) >= n /\ Cardinality(audit) < n + MaxAudit

PollRequest ==
    \E u \in AllUsers, d \in DocIds, since \in Times \cup {Null}, tie \in TieOrders :
        document_events_poll(u, d, since, tie)

AuditLogRequest ==
    PollRoom /\ \E u \in AllUsers, d \in DocIds, page \in {1, 2}, tie \in TieOrders :
                   document_audit_log(u, d, page, tie)

NextPoll == PollRequest \/ AuditLogRequest

SpecPoll == InitPoll /\ [][NextPoll]_vars

audit_row(id) == CHOOSE a \in audit : a.id = id

PollAnswered == last.op = "document_events_poll" /\ last.status = 200

AuditLogAnswered == last.op = "document_audit_log" /\ last.status = 200

\* C25: a poll answered for user U with since = T lists at most 20 rows, each
\* of the polled document, each with ts > T, none with actor U, in ascending
\* ts; an audit log answered lists rows of the document in descending ts.
C25_PollAndLog ==
    /\ PollAnswered =>
          /\ Len(last.result) <= 20
          /\ \A i \in 1..Len(last.result) :
                /\ audit_row(last.result[i]).document = last.doc
                /\ audit_row(last.result[i]).ts > last.arg
                /\ audit_row(last.result[i]).actor_user # last.user
          /\ \A i, j \in 1..Len(last.result) :
                i < j => audit_row(last.result[i]).ts <= audit_row(last.result[j]).ts
    /\ AuditLogAnswered =>
          /\ \A i \in 1..Len(last.result) : audit_row(last.result[i]).document = last.doc
          /\ \A i, j \in 1..Len(last.result) :
                i < j => audit_row(last.result[i]).ts >= audit_row(last.result[j]).ts

\* a poll cut at 20 rows, over a table that also holds rows of the document
\* the poll had to leave out: the caller's own, and rows not after since
C25_Witness ==
    /\ PollAnswered
    /\ Len(last.result) = 20
    /\ \E a \in audit : a.document = last.doc /\ a.ts > last.arg /\ a.actor_user = last.user
    /\ \E a \in audit : a.document = last.doc /\ a.ts <= last.arg /\ a.actor_user # last.user
    /\ Cardinality(events_since(audit, last.user, last.doc, last.arg)) > 20

\* ---------------------------------------------------------------- order of revoke and its record
\* document_acl_detail, DELETE branch, one step per statement; the Notification
\* rows written by notify_acl_revoked before the log call are not modelled.
acl_detail_delete_begin(p, u, d, row) ==
    /\ reqs[p].pc = "idle"
    /\ UNCHANGED <<documents, versions, acl, shareLinks, now, audit, auditOk, qrLinks>>
    /\ IF ~is_authenticated(u)
       THEN /\ last' = Result("document_acl_detail", u, d, "DELETE", 401, "")
            /\ UNCHANGED reqs
       ELSE IF ~Live(d) \/ row \notin acl \/ row.document # d
       THEN /\ last' = Result("document_acl_detail", u, d, "DELETE", 404, "")
            /\ UNCHANGED reqs
       ELSE IF ~user_can_perform_action(u, d, SHARE)
       THEN /\ last' = Result("document_acl_detail", u, d, "DELETE", 403, "")
            /\ UNCHANGED reqs
       ELSE /\ reqs' = [reqs EXCEPT ![p] =
                          [Idle EXCEPT !.pc = "revoke_log", !.kind = "acl_delete", !.user = u,
                                       !.doc = d, !.target = row.id]]
            /\ UNCHANGED last

\* log_access_revoked(request, document, revoked_from=...)
acl_detail_delete_log(p) ==
    /\ reqs[p].pc = "revoke_log"
    /\ audit' = log_access_revoked(reqs[p].user, reqs[p].doc).table
    /\ reqs' = [reqs EXCEPT ![p].pc = "revoke_delete"]
    /\ UNCHANGED <<documents, versions, acl, shareLinks, now, last, auditOk, qrLinks>>

\* acl.delete(); return Response(status=204)
acl_detail_delete_row(p) ==
    /\ reqs[p].pc = "revoke_delete"
    /\ acl' = {r \in acl : ~(r.document = reqs[p].doc /\ r.id = reqs[p].target)}
    /\ reqs' = [reqs EXCEPT ![p] = Idle]
    /\ last' = Result("document_acl_detail", reqs[p].user, reqs[p].doc, "DELETE", 204, "")
    /\ UNCHANGED <<documents, versions, shareLinks, now, audit, auditOk, qrLinks>>

OrderGrant ==
    /\ AuditRoom
    /\ \E d \in DocIds, b \in {g \in GrantBodies : g.role \in {VIEWER, EDITOR} /\ g.expires_at = Null} :
          document_share_create(1, d, b.subject_type, b.subject_id, b.role, b.expires_at)

OrderRevoke ==
    \/ AuditRoom /\ \E p \in StopProcs, u \in {1, 2}, row \in acl :
                       acl_detail_delete_begin(p, u, row.document, row)
    \/ AuditRoom /\ \E p \in StopProcs : acl_detail_delete_log(p)
    \/ \E p \in StopProcs : acl_detail_delete_row(p)

OrderStop == \E p \in StopProcs : RequestStops(p)

NextOrder == OrderGrant \/ OrderRevoke \/ OrderStop \/ AuditStoreChange

SpecOrder == InitLink /\ [][NextOrder]_vars

\* C26: the step that writes the audit row of a revoke finds the ACL row
\* already removed (the removal is committed before the record is written).
C26_Original ==
    [][\A p \in StopProcs :
          (acl_detail_delete_log(p) /\ audit' # audit) =>
              \A r \in acl' : ~(r.document = reqs[p].doc /\ r.id = reqs[p].target)]_vars

\* ---------------------------------------------------------------- claims on content and ledger
\* C27: when no request is in flight, the html of every document is the html
\* of its version row numbered current_version_no.
C27_Original ==
    Quiescent =>
        \A d \in DocIds : Live(d) =>
            \E v \in versions_of(d) :
                v.version_no = documents[d].current_version_no /\ v.html = documents[d].html

\* ---------------------------------------------------------------- requests of a grantee
\* Document 1 of user 1 with one share link; user 2 holds any direct grant, with
\* or without expiry, and group 1 (of which user 2 is a member) may hold EDITOR
\* until time 1.  Every grant and share-link request is sent by user 2.
GranteeTables ==
    {a \cup b \cup {[id |-> 1, document |-> 1, subject_type |-> "share_link", subject_id |-> 1,
                     role |-> VIEWER, expires_at |-> Null]} :
        a \in RowChoices("user", 2, Roles, {Null, 1}),
        b \in RowChoices("group", 1, {EDITOR}, {1})}

InitGrantee ==
    /\ documents = [d \in DocIds |->
                       [state |-> "live", owner |-> 1, html |-> <<"b">>,
                        text |-> <<"b">>, current_version_no |-> 1]]
    /\ versions = {VersionRow(1, 1, <<"b">>, <<"b">>, 1)}
    /\ acl \in GranteeTables
    /\ shareLinks = {LinkRow(1, 1, VIEWER, Null)}
    /\ now = 0
    /\ reqs = [p \in Procs |-> Idle]
    /\ last = Result("", Anon, 0, "", 0, "")
    /\ audit = {}
    /\ auditOk = FALSE
    /\ qrLinks = {QRRow(1)}

\* user 2 asks for OWNER for itself, or for VIEWER for group 1
GranteeBodies ==
    {b \in GrantBodies :
        /\ b.expires_at = Null
        /\ \/ b.subject_type = "user" /\ b.subject_id = 2 /\ b.role = OWNER
           \/ b.subject_type = "group" /\ b.role = VIEWER}

GranteeGrant ==
    \E d \in DocIds, b \in GranteeBodies :
        \/ b.subject_type = "user"
           /\ document_share_create(2, d, b.subject_type, b.subject_id, b.role, b.expires_at)
        \/ b.subject_type = "group"
           /\ document_acl_list_create(2, d, b.subject_type, b.subject_id, b.role, b.expires_at)

GranteeAclRow ==
    \E row \in acl :
        \/ document_acl_detail(2, "DELETE", row.document, row, NoChange, KeepExpiry)
        \/ row.subject_type = "user"
           /\ document_acl_detail(2, "PUT", row.document, row, OWNER, KeepExpiry)
        \/ row.subject_type = "group" /\ share_update_delete(2, "DELETE", row, NoChange)
        \/ row.subject_type = "group" /\ share_update_delete(2, "PUT", row, OWNER)

\* one more link at most is created
GranteeLink ==
    \/ \E p \in LinkProcs, d \in DocIds :
          Cardinality(shareLinks) = 1 /\ document_share_links_save(p, 2, d, VIEWER, Null)
    \/ \E p \in LinkProcs : document_share_links_acl(p)
    \/ \E p \in LinkProcs, id \in {1, 2} : share_link_revoke_begin(p, 2, id)
    \/ \E p \in LinkProcs : share_link_revoke_save(p)
    \/ \E p \in LinkProcs : share_link_revoke_acl(p)

NextGrantee == GranteeGrant \/ GranteeAclRow \/ GranteeLink \/ Tick

SpecGrantee == InitGrantee /\ [][NextGrantee]_vars

GrantOps ==
    {"document_share_create", "document_acl_list_create", "document_acl_detail",
     "share_update_delete", "document_share_links", "share_link_revoke"}

LowRole(u, d) == get_user_effective_role(u, d) \in {EDITOR, VIEWER, NoRole}

\* a grant or share-link request of u arrives in this step (no request of u is
\* being continued)
GrantRequestBy(u) ==
    /\ \A p \in Procs : reqs[p].pc = "idle"
    /\ \/ last' # last /\ last'.op \in GrantOps /\ last'.user = u
       \/ \E p \in Procs : reqs'[p].pc # "idle" /\ reqs'[p].user = u

GrantRequestDenied ==
    /\ last'.status \in {403, 404}
    /\ acl' = acl
    /\ shareLinks' = shareLinks
    /\ reqs' = reqs

C29_Original ==
    Quiescent =>
        \A l \in shareLinks :
            share_link_access_status(l.token) = 200 =>
                Cardinality(acl_matching(l.document, "share_link", l.id)) = 1

\* ---------------------------------------------------------------- queryset filters
\* DocumentListCreateView.get (ListModelMixin.list over get_queryset)
DocumentListCreateView_get(u, owner_filter) ==
    /\ UNCHANGED <<documents, versions, acl, shareLinks, now, reqs, audit, auditOk, qrLinks>>
    /\ IF ~is_authenticated(u)
       THEN last' = Result("document_list", u, 0, owner_filter, 401, {})
       ELSE last' = Result("document_list", u, 0, owner_filter, 200, list_queryset(u, owner_filter))

\* views.search_standard with no q and no label_ids
search_standard(u) ==
    /\ UNCHANGED <<documents, versions, acl, shareLinks, now, reqs, audit, auditOk, qrLinks>>
    /\ last' = Result("search_standard", u, 0, NoOwnerFilter, 200, permission_filter_queryset(u))

\* the documents DocumentDetailView.get_object() can find for u
detail_lookup(u) ==
    /\ is_authenticated(u)
    /\ UNCHANGED <<documents, versions, acl, shareLinks, now, reqs, audit, auditOk, qrLinks>>
    /\ last' = Result("document_detail", u, 0, NoOwnerFilter, 200, detail_queryset(u))

\* a direct grant of user 2 and a grant of group 1, of which users 1 and 2 are members
FilterTables ==
    {a \cup b : a \in RowChoices("user", 2, RoleInputs, ExpiryInputs),
                b \in RowChoices("group", 1, {VIEWER}, ExpiryInputs)}

InitFilter ==
    /\ documents = [d \in DocIds |->
                       [state |-> "live", owner |-> 1, html |-> <<"b">>,
                        text |-> <<"b">>, current_version_no |-> 1]]
    /\ versions = {VersionRow(1, 1, <<"b">>, <<"b">>, 1)}
    /\ acl \in FilterTables
    /\ shareLinks = {}
    /\ now = 0
    /\ reqs = [p \in Procs |-> Idle]
    /\ last = Result("", Anon, 0, NoOwnerFilter, 0, {})
    /\ audit = {}
    /\ auditOk = FALSE
    /\ qrLinks = {QRRow(1)}

NextFilter ==
    \/ \E u \in AllUsers, f \in OwnerFilters : DocumentListCreateView_get(u, f)
    \/ \E u \in AllUsers : search_standard(u)
    \/ \E u \in AllUsers : detail_lookup(u)
    \/ Tick

SpecFilter == InitFilter /\ [][NextFilter]_vars

\* the documents on which the resolver gives u a role
ResolvedDocs(u) == {d \in DocIds : Live(d) /\ get_user_effective_role(u, d) # NoRole}

FilterOps == {"document_list", "search_standard", "document_detail"}

\* C30 as stated: whatever the list request carries, the set a filter answers
\* with is the set of documents on which the resolver gives the caller a role
\* at that instant.
C30_Original ==
    [][(last' # last /\ last'.op \in FilterOps /\ last'.status = 200) =>
          last'.result = ResolvedDocs(last'.user)]_vars

FiltersMatchResolver ==
    /\ \A u \in AuthUsers :
          /\ list_queryset(u, NoOwnerFilter) = ResolvedDocs(u)
          /\ detail_queryset(u) = ResolvedDocs(u)
          /\ permission_filter_queryset(u) = ResolvedDocs(u)
    /\ permission_filter_queryset(Anon) = ResolvedDocs(Anon)

FilterAnswer ==
    (last' # last /\ last'.op \in FilterOps /\ last'.status = 200
     /\ last'.arg = NoOwnerFilter) =>
        last'.result = ResolvedDocs(last'.user)

\* C30, amended: for a list request without an owner parameter, and for the
\* detail and search filters, the set selected is the set of documents on
\* which get_user_effective_role returns a role at that instant.
C30_FiltersMatchResolver == []FiltersMatchResolver /\ [][FilterAnswer]_vars

\* user 2 was listed document 1 through a group grant alone, next to an expired
\* direct grant that the filters and the resolver both pass over
C30_Witness ==
    /\ last.op = "document_list" /\ last.user = 2 /\ last.result = {1}
    /\ user_acl_rows(2, 1) = {}
    /\ \E r \in acl : r.subject_type = "user" /\ r.subject_id = 2 /\ ExpiredRow(r)
    /\ group_acls(2, 1) # {}
    /\ ResolvedDocs(2) = {1}

====
